---------------------------- MODULE Spec2Model ----------------------------
(***************************************************************************)
(* Robot log analysis pipeline (velamints2/log_reader).                    *)
(*                                                                         *)
(* The module models, from the Python sources:                             *)
(*   - the timestamp parser and the pattern classifiers of                 *)
(*     ComprehensiveRobotAnalyzer (comprehensive_robot_analyzer.py);       *)
(*   - the per-file scan analyze_log_file and the loop of analyze_all_logs *)
(*     with the task segmenter embedded in it;                             *)
(*   - the stop-point detectors of ComprehensiveRobotAnalyzer and of       *)
(*     RobotLogAnalyzer (advanced_log_analyzer.py).                        *)
(*                                                                         *)
(* Abstraction of text.  A log line is a record of what the regular        *)
(* expressions of the program can see in it:                               *)
(*   toks  the timestamp-like tokens of the line, left to right;           *)
(*   task  the task-phase categories one of whose patterns matches;        *)
(*   anom  the (anomaly type, pattern number) pairs whose pattern matches; *)
(*   err, warn  whether the line holds the substring ERROR / WARN;         *)
(*   pos   the position patterns that match, with their captured groups.   *)
(* Time is counted in whole seconds from local midnight of the day of the  *)
(* log; epoch tokens carry milliseconds from the same origin.  Raw text    *)
(* kept by the program only for display (an event's 'line', an anomaly's   *)
(* 'description') is not part of the state.                                *)
(***************************************************************************)
EXTENDS Integers, Sequences, FiniteSets, TLC

VARIABLES
    \* ---- one call of a line-level function (specification SpecLine)
    line_in,          \* the line handed to the function
    call,             \* the function applied last ("none" before any call)
    ts_ret,           \* parse_timestamp's return value
    sev_arg,          \* assess_anomaly_severity's anomaly_type argument
    sev_ret,          \* assess_anomaly_severity's return value
    pos_ret,          \* extract_position_info's return value (<<>> is None)
    \* ---- the analyzer object and one analyze_all_logs run (Spec)
    log_dir,          \* the files of the directory self.log_dir
    log_files,        \* self.log_files
    task_segments,    \* self.task_segments
    position_data,    \* self.position_data
    anomalies,        \* self.anomalies
    pc,               \* where analyze_all_logs stands
    file_idx,         \* index in log_files of the file being scanned
    current_task,     \* analyze_log_file's local current_task (<<>> is None)
    task_start_time,  \* analyze_log_file's local task_start_time
    scanned,          \* history: the lines read so far from the current file
    scan_base,        \* history: Len(task_segments) when the current scan began
    lines_read,       \* history: the lines read in the run so far
    open_at_eof,      \* history: the files whose scan ended with a task open
    failed,           \* history: <<run, index in log_files>> of the scans that raised
    run,              \* history: the analyze_all_logs calls made on the object
    contents,         \* the lines of each file of log_dir, where they are fixed
    first_run,        \* history: the four collections when the first run ended
    \* ---- one detect_stop_points call (SpecStop)
    sp_variant,       \* which analyzer's detector runs
    sp_W,             \* time_window_minutes
    sp_T,             \* movement_threshold
    sorted_positions, \* the local sorted_positions
    sp_i,             \* the loop index i (0-based as in the code)
    window_start,     \* the local window_start (0-based)
    position_window,  \* the local deque position_window (RobotLogAnalyzer)
    stop_points,      \* the local stop_points
    sp_pc,            \* where detect_stop_points stands
    \* ---- one analyze_complaint_scenario call (SpecComplaint)
    stop_events,      \* ComplaintAnalyzer.stop_events
    anomaly_events,   \* ComplaintAnalyzer.anomaly_events
    ca_position_data, \* ComplaintAnalyzer.position_data
    complaint_time,   \* the argument complaint_time
    time_window_minutes, \* the argument time_window_minutes
    complaint_analysis,  \* the dict returned (<<>> before the call returns)
    \* ---- one perform_historical_trace call (SpecTrace)
    tr_variant,       \* which analyzer's perform_historical_trace runs
    ht_task_segments, \* self.task_segments of that analyzer
    target_task,      \* the argument target_task_time / target_task_index
    lookback_tasks,   \* the argument lookback_tasks (<<>> when omitted)
    sequence,         \* the local sequence
    trace_analysis,   \* the dict returned (<<>> before the call returns)
    \* ---- one call of a report function or of an entry point (SpecReport, SpecEntry)
    report_op,        \* the function called ("none" before the call)
    report_arg,       \* its complaint-time argument (<<>> when omitted)
    report,           \* what the caller gets (<<>> before the call returns)
    \* ---- one ComplaintAnalyzer run: analyze_all_logs, then the scenario (SpecDetect)
    ca_log_files,     \* ComplaintAnalyzer.log_files, each with its lines
    ca_file_idx,      \* files detect_stop_events was called on
    ca_line_idx,      \* lines read of the current file
    position_buffer,  \* the local position_buffer of detect_stop_events
    ca_pc,            \* where the run stands
    \* ---- one HistoricalTraceAnalyzer scan: extract_task_segments on each file (SpecExtract)
    ht_log_files,     \* HistoricalTraceAnalyzer.log_files, each with its lines
    ht_file_idx,      \* files extract_task_segments was called on
    ht_line_idx,      \* lines read of the current file
    ht_current_task,  \* the local current_task (<<>> is None)
    ht_closed,        \* history: tasks closed by a task_end line so far
    ht_pc,            \* where the scan stands
    \* ---- one call_ai_model call (SpecAi)
    ai_key,           \* whether API_KEY is configured
    ai_retries,       \* the argument retries
    ai_backoff,       \* the argument backoff
    ai_attempt,       \* the loop variable attempt
    ai_outcomes,      \* history: the outcome of each request made
    ai_sleeps,        \* history: the argument of each time.sleep call
    ai_result,        \* what the caller gets (<<>> before the call ends)
    ai_pc             \* where the call stands

lineVars == <<line_in, call, ts_ret, sev_arg, sev_ret, pos_ret>>
scanVars == <<log_dir, log_files, task_segments, position_data, anomalies, pc,
              file_idx, current_task, task_start_time, scanned, scan_base,
              lines_read, open_at_eof, failed, run, contents, first_run>>
stopVars == <<sp_variant, sp_W, sp_T, sorted_positions, sp_i, window_start,
              position_window, stop_points, sp_pc>>
complaintVars == <<stop_events, anomaly_events, ca_position_data, complaint_time,
                   time_window_minutes, complaint_analysis>>
traceVars == <<tr_variant, ht_task_segments, target_task, lookback_tasks, sequence,
               trace_analysis>>
reportVars == <<report_op, report_arg, report>>
detectVars == <<ca_log_files, ca_file_idx, ca_line_idx, position_buffer, ca_pc>>
extractVars == <<ht_log_files, ht_file_idx, ht_line_idx, ht_current_task, ht_closed,
                 ht_pc>>
aiVars == <<ai_key, ai_retries, ai_backoff, ai_attempt, ai_outcomes, ai_sleeps,
            ai_result, ai_pc>>
restVars == <<complaintVars, traceVars, reportVars, detectVars, extractVars, aiVars>>
vars == <<lineVars, scanVars, stopVars, restVars>>

(***************************************************************************)
(* Bounds of the model.                                                    *)
(***************************************************************************)
MaxToks == 2        \* timestamp-like tokens in a line (SpecLine)
MaxLines == 4       \* lines read in one analyze_all_logs run
MaxPos == 4         \* position records handed to detect_stop_points

(***************************************************************************)
(* Sentinels.                                                              *)
(***************************************************************************)
NoTimestamp == -1   \* parse_timestamp's None
ConvError == -2     \* a conversion that raises ValueError / OverflowError
NoBranch == -3      \* a match for which no if/elif branch returns

Last(s) == s[Len(s)]

(***************************************************************************)
(* Timestamp tokens.                                                       *)
(*   std    YYYY-MM-DD HH:MM:SS                                            *)
(*   stdms  YYYY-MM-DD HH:MM:SS:mmm                                        *)
(*   ros    [seconds.nanoseconds], nd = digits of the seconds part         *)
(*   epoch  an integer of 13 digits (milliseconds)                         *)
(* mo, hh, mi are the month, hour and minute fields of std / stdms (the    *)
(* seconds field is 00); v is the integer value of ros / epoch.            *)
(***************************************************************************)
Tok(k, mo, hh, mi, v, nd) ==
    [k |-> k, mo |-> mo, hh |-> hh, mi |-> mi, v |-> v, nd |-> nd]

StdToks == {Tok("std", mo, 10, mi, 0, 0) : mo \in {1, 13}, mi \in {0, 5, 10}}
StdMsToks == {Tok("stdms", mo, 10, mi, 0, 0) : mo \in {1, 13}, mi \in {0, 5}}
RosToks == {Tok("ros", 0, 0, 0, 36000, 10), Tok("ros", 0, 0, 0, 36600000, 13)}
EpochToks == {Tok("epoch", 0, 0, 0, v, 13) : v \in {36000000, 36300000}}
Tokens == StdToks \cup StdMsToks \cup RosToks \cup EpochToks

\* timestamp_patterns, in list order: which tokens each regex matches.
\* Pattern 1 also matches the first 19 characters of a stdms token, and
\* pattern 4 the 13 digits of a bracketed seconds part of 13 digits.
PatternMatches(p, tok) ==
    CASE p = 1 -> tok.k \in {"std", "stdms"}
      [] p = 2 -> tok.k = "ros"
      [] p = 3 -> tok.k = "stdms"
      [] p = 4 -> tok.k = "epoch" \/ (tok.k = "ros" /\ tok.nd = 13)

NumPatterns == 4

\* A faulty variant of re_search: the rightmost match.
re_search_rightmost(p, toks) ==
    IF \E i \in 1..Len(toks) : PatternMatches(p, toks[i])
    THEN CHOOSE i \in 1..Len(toks) :
            /\ PatternMatches(p, toks[i])
            /\ \A j \in (i+1)..Len(toks) : ~PatternMatches(p, toks[j])
    ELSE 0

\* re.search(pattern, line): the leftmost match (0: no match).
re_search(p, toks) ==
    IF \E i \in 1..Len(toks) : PatternMatches(p, toks[i])
    THEN CHOOSE i \in 1..Len(toks) :
            /\ PatternMatches(p, toks[i])
            /\ \A j \in 1..(i-1) : ~PatternMatches(p, toks[j])
    ELSE 0

\* match.group(1): its number of colons and its length.
GroupColons(p) == CASE p = 1 -> 2 [] p = 3 -> 3 [] OTHER -> 0
GroupLen(p, tok) == CASE p = 1 -> 19 [] p = 3 -> 23 [] p = 2 -> tok.nd [] OTHER -> 13

\* datetime.strptime(s, '%Y-%m-%d %H:%M:%S'): raises on a field out of range.
strptime(tok) ==
    IF tok.mo \in 1..12 /\ tok.hh \in 0..23 /\ tok.mi \in 0..59
    THEN tok.hh * 3600 + tok.mi * 60
    ELSE ConvError

\* datetime.fromtimestamp(int(s) / 1000.0)
fromtimestamp_ms(v) == v \div 1000

\* The body of the try block for a match of pattern p on token tok.
ConvertMatch(p, tok) ==
    IF GroupColons(p) = 2 THEN strptime(tok)
    ELSE IF GroupColons(p) = 3 THEN strptime(tok)
    ELSE IF GroupLen(p, tok) = 13 THEN fromtimestamp_ms(tok.v)
    ELSE NoBranch

RECURSIVE TryPatterns(_, _)

\* A faulty variant of OnConversionFailure: give up at the first failed conversion.
OnConversionFailureGiveUp(toks, p) == NoTimestamp

\* except (ValueError, OverflowError): continue -- and the fall out of the
\* if/elif chain: the loop goes on with the next pattern.
OnConversionFailure(toks, p) == TryPatterns(toks, p + 1)

\* for pattern in timestamp_patterns: ...
TryPatterns(toks, p) ==
    IF p > NumPatterns THEN NoTimestamp
    ELSE LET m == re_search(p, toks) IN
         IF m = 0 THEN TryPatterns(toks, p + 1)
         ELSE LET r == ConvertMatch(p, toks[m]) IN
              IF r >= 0 THEN r ELSE OnConversionFailure(toks, p)

parse_timestamp(line) == TryPatterns(line.toks, 1)

(***************************************************************************)
(* Pattern classifiers.                                                    *)
(***************************************************************************)
\* A faulty variant of TaskPhaseOrder: task_end is listed before task_start.
TaskPhaseOrderEndFirst ==
    <<"task_end", "task_start", "charging", "debugging", "map_maintenance", "idle">>

\* self.task_patterns, in dict order.
TaskPhaseOrder ==
    <<"task_start", "task_end", "charging", "debugging", "map_maintenance", "idle">>

NoPhase == "None"

RECURSIVE FirstPhaseFrom(_, _)
FirstPhaseFrom(line, k) ==
    IF k > Len(TaskPhaseOrder) THEN NoPhase
    ELSE IF TaskPhaseOrder[k] \in line.task THEN TaskPhaseOrder[k]
    ELSE FirstPhaseFrom(line, k + 1)

\* detect_task_phase: the first category in table order with a matching pattern.
detect_task_phase(line) == FirstPhaseFrom(line, 1)

\* self.anomaly_patterns: the types in dict order with their pattern counts.
AnomalyTypeOrder ==
    <<"sensor_offline", "mechanical_issue", "cpu_high", "speed_anomaly",
      "localization_drop", "battery_low">>
AnomalyPatternCount ==
    [t \in {AnomalyTypeOrder[k] : k \in 1..Len(AnomalyTypeOrder)} |->
        CASE t = "sensor_offline" -> 6
          [] t = "mechanical_issue" -> 7
          [] t = "cpu_high" -> 5
          [] t = "speed_anomaly" -> 5
          [] t = "localization_drop" -> 5
          [] t = "battery_low" -> 4]

\* severity_map of assess_anomaly_severity.
severity_map ==
    [t \in {AnomalyTypeOrder[k] : k \in 1..Len(AnomalyTypeOrder)} |->
        CASE t = "sensor_offline" -> "medium"
          [] t = "mechanical_issue" -> "high"
          [] t = "cpu_high" -> "high"
          [] t = "speed_anomaly" -> "medium"
          [] t = "localization_drop" -> "high"
          [] t = "battery_low" -> "medium"]

\* severity_map.get(anomaly_type, 'low')
base_severity(anomaly_type) ==
    IF anomaly_type \in DOMAIN severity_map THEN severity_map[anomaly_type] ELSE "low"

\* A faulty variant of assess_anomaly_severity: the table value wins over the line.
assess_anomaly_severity_table_first(anomaly_type, line) ==
    IF anomaly_type \in DOMAIN severity_map THEN severity_map[anomaly_type]
    ELSE IF line.err THEN "high"
    ELSE IF line.warn THEN "medium"
    ELSE "low"

assess_anomaly_severity(anomaly_type, line) ==
    IF line.err THEN "high"
    ELSE IF line.warn THEN "medium"
    ELSE base_severity(anomaly_type)


\* One anomaly dict of detect_anomalies ('file' is filled by the caller).
AnomalyRecord(anomaly_type, line, timestamp) ==
    [timestamp |-> timestamp, type |-> anomaly_type,
     severity |-> assess_anomaly_severity(anomaly_type, line),
     file |-> "current_file"]

RECURSIVE AnomaliesFrom(_, _, _, _)
AnomaliesFrom(line, timestamp, k, p) ==
    IF k > Len(AnomalyTypeOrder) THEN <<>>
    ELSE IF p > AnomalyPatternCount[AnomalyTypeOrder[k]]
         THEN AnomaliesFrom(line, timestamp, k + 1, 1)
    ELSE (IF <<AnomalyTypeOrder[k], p>> \in line.anom
          THEN <<AnomalyRecord(AnomalyTypeOrder[k], line, timestamp)>>
          ELSE <<>>)
         \o AnomaliesFrom(line, timestamp, k, p + 1)

\* detect_anomalies: one anomaly per matching pattern, in table order.
detect_anomalies(line, timestamp) == AnomaliesFrom(line, timestamp, 1, 1)

\* self.position_patterns, in dict order.
PositionPatternOrder ==
    <<"slam_pose", "odom_pose", "charge_station", "goal_pose", "robot_position",
      "trajectory_point">>

\* pattern_name.split('_')[0] for the two pose patterns.
NameHead(pattern_name) == IF pattern_name = "slam_pose" THEN "slam" ELSE "odom"

\* The dict returned for a match m of pattern pattern_name.
PositionRecord(pattern_name, m, timestamp) ==
    IF pattern_name \in {"slam_pose", "odom_pose"}
    THEN [timestamp |-> timestamp, type |-> NameHead(pattern_name),
          x |-> m.x, y |-> m.y, z |-> m.z, source |-> pattern_name]
    ELSE [timestamp |-> timestamp, type |-> "reference",
          x |-> m.x, y |-> m.y, source |-> pattern_name]

RECURSIVE PositionFrom(_, _, _)
PositionFrom(line, timestamp, k) ==
    IF k > Len(PositionPatternOrder) THEN <<>>
    ELSE LET name == PositionPatternOrder[k]
             ms == {m \in line.pos : m.name = name}
         IN IF ms = {} THEN PositionFrom(line, timestamp, k + 1)
            ELSE LET m == CHOOSE m \in ms : TRUE IN
                 IF m.ok THEN <<PositionRecord(name, m, timestamp)>>
                 ELSE PositionFrom(line, timestamp, k + 1)

\* A faulty variant of extract_position_info: a conversion failure ends the search.
extract_position_info_first_match(line, timestamp) ==
    LET matching == {k \in 1..Len(PositionPatternOrder) :
                        \E m \in line.pos : m.name = PositionPatternOrder[k]}
    IN  IF matching = {} THEN <<>>
        ELSE LET k == CHOOSE k \in matching : \A j \in matching : k <= j
                 m == CHOOSE m \in line.pos : m.name = PositionPatternOrder[k]
             IN  IF m.ok THEN <<PositionRecord(m.name, m, timestamp)>> ELSE <<>>

\* extract_position_info: <<>> is None.  A match whose groups float() rejects
\* (m.ok false) raises ValueError and the loop continues.
extract_position_info(line, timestamp) == PositionFrom(line, timestamp, 1)

(***************************************************************************)
(* Lines.                                                                  *)
(***************************************************************************)
Line(toks, task, anom, err, warn, pos) ==
    [toks |-> toks, task |-> task, anom |-> anom, err |-> err, warn |-> warn,
     pos |-> pos]

PosMatch(name, ok, x, y, z) == [name |-> name, ok |-> ok, x |-> x, y |-> y, z |-> z]

At(mi) == <<Tok("std", 1, 10, mi, 0, 0)>>

\* The lines a scanned file is made of.
ScanLines ==
    { Line(At(0), {"task_start"}, {}, FALSE, FALSE, {}),
      Line(At(5), {"task_start"}, {}, FALSE, FALSE, {}),
      Line(At(5), {"task_end"}, {}, FALSE, FALSE, {}),
      Line(At(10), {"task_end"}, {}, FALSE, FALSE, {}),
      Line(At(5), {"task_start", "task_end"}, {}, FALSE, FALSE, {}),
      Line(At(5), {}, {}, FALSE, FALSE, {PosMatch("slam_pose", TRUE, 1, 2, 0)}),
      Line(At(5), {"charging"}, {<<"mechanical_issue", 3>>}, TRUE, FALSE, {}),
      Line(<<>>, {"task_start"}, {}, FALSE, FALSE, {}),
      Line(<<Tok("std", 13, 10, 5, 0, 0)>>, {"task_end"},
           {<<"battery_low", 2>>}, FALSE, TRUE,
           {PosMatch("goal_pose", TRUE, 3, 4, 0)}) }

\* The lines handed to the line-level functions.
RECURSIVE TokSeqs(_)
TokSeqs(n) ==
    IF n = 0 THEN {<<>>}
    ELSE LET shorter == TokSeqs(n - 1) IN
         shorter \cup {Append(s, t) : s \in {q \in shorter : Len(q) = n - 1}, t \in Tokens}

LineInputs ==
    {Line(toks, {}, {}, err, warn, {}) :
        toks \in TokSeqs(MaxToks), err \in BOOLEAN, warn \in BOOLEAN}

\* The lines handed to extract_position_info: each of three patterns is
\* absent, matches with numeric groups, or matches with a group float() rejects.
PatternOutcomes(name) ==
    {{}, {PosMatch(name, TRUE, 1, 2, 0)}, {PosMatch(name, FALSE, 0, 0, 0)}}

PositionLineInputs ==
    {Line(<<>>, {}, {}, FALSE, FALSE, s \cup o \cup g) :
        s \in PatternOutcomes("slam_pose"), o \in PatternOutcomes("odom_pose"),
        g \in PatternOutcomes("goal_pose")}

\* The anomaly types assess_anomaly_severity is called with: those of the
\* table and one that is not in it.
SeverityArgs == {AnomalyTypeOrder[k] : k \in 1..Len(AnomalyTypeOrder)} \cup {"unlisted"}

(***************************************************************************)
(* SpecLine: one line, the line-level functions applied to it.             *)
(***************************************************************************)
\* No scan has raised, the object has seen one analyze_all_logs call at most.
RunIdle == failed = {} /\ run = 1 /\ contents = <<>> /\ first_run = <<>>

ScanIdle ==
    /\ log_dir = {} /\ log_files = <<>> /\ task_segments = <<>>
    /\ position_data = <<>> /\ anomalies = <<>> /\ pc = "idle" /\ file_idx = 0
    /\ current_task = <<>> /\ task_start_time = NoTimestamp /\ scanned = <<>>
    /\ scan_base = 0 /\ lines_read = 0 /\ open_at_eof = {}
    /\ RunIdle

StopIdle ==
    /\ sp_variant = "none" /\ sp_W = 0 /\ sp_T = 0 /\ sorted_positions = <<>>
    /\ sp_i = 0 /\ window_start = 0 /\ position_window = <<>>
    /\ stop_points = <<>> /\ sp_pc = "idle"

LineIdle ==
    /\ line_in = Line(<<>>, {}, {}, FALSE, FALSE, {}) /\ call = "none"
    /\ ts_ret = NoTimestamp /\ sev_arg = "" /\ sev_ret = "" /\ pos_ret = <<>>

ComplaintIdle ==
    /\ stop_events = <<>> /\ anomaly_events = <<>> /\ ca_position_data = <<>>
    /\ complaint_time = NoTimestamp /\ time_window_minutes = 0
    /\ complaint_analysis = <<>>

TraceIdle ==
    /\ tr_variant = "none" /\ ht_task_segments = <<>> /\ target_task = <<>>
    /\ lookback_tasks = <<>> /\ sequence = <<>> /\ trace_analysis = <<>>

ReportIdle == report_op = "none" /\ report_arg = <<>> /\ report = <<>>

DetectIdle ==
    /\ ca_log_files = <<>> /\ ca_file_idx = 0 /\ ca_line_idx = 0
    /\ position_buffer = <<>> /\ ca_pc = "idle"

ExtractIdle ==
    /\ ht_log_files = <<>> /\ ht_file_idx = 0 /\ ht_line_idx = 0
    /\ ht_current_task = <<>> /\ ht_closed = 0 /\ ht_pc = "idle"

AiIdle ==
    /\ ai_key = FALSE /\ ai_retries = 0 /\ ai_backoff = 0 /\ ai_attempt = 0
    /\ ai_outcomes = <<>> /\ ai_sleeps = <<>> /\ ai_result = <<>> /\ ai_pc = "idle"

RestIdle ==
    ComplaintIdle /\ TraceIdle /\ ReportIdle /\ DetectIdle /\ ExtractIdle /\ AiIdle

InitLine ==
    /\ line_in \in LineInputs \cup PositionLineInputs
    /\ call = "none" /\ ts_ret = NoTimestamp /\ sev_arg = "" /\ sev_ret = ""
    /\ pos_ret = <<>>
    /\ ScanIdle /\ StopIdle /\ RestIdle

CallParseTimestamp ==
    /\ call = "none"
    /\ call' = "parse_timestamp"
    /\ ts_ret' = parse_timestamp(line_in)
    /\ UNCHANGED <<line_in, sev_arg, sev_ret, pos_ret, scanVars, stopVars, restVars>>

CallAssessSeverity ==
    /\ call = "none"
    /\ \E t \in SeverityArgs :
          /\ sev_arg' = t
          /\ sev_ret' = assess_anomaly_severity(t, line_in)
    /\ call' = "assess_anomaly_severity"
    /\ UNCHANGED <<line_in, ts_ret, pos_ret, scanVars, stopVars, restVars>>

\* extract_position_info(line, timestamp), the timestamp being the line's.
CallExtractPositionInfo ==
    /\ call = "none"
    /\ call' = "extract_position_info"
    /\ pos_ret' = extract_position_info(line_in, 36000)
    /\ UNCHANGED <<line_in, ts_ret, sev_arg, sev_ret, scanVars, stopVars, restVars>>

NextLine == CallParseTimestamp \/ CallAssessSeverity \/ CallExtractPositionInfo

SpecLine == InitLine /\ [][NextLine]_vars


(***************************************************************************)
(* Spec: a ComprehensiveRobotAnalyzer and one analyze_all_logs run.        *)
(* The lines of a file are chosen as they are read.                        *)
(***************************************************************************)
\* The directories of the model: one file per glob pattern at most, so that
\* the order of discovery is the order of the patterns.
Directories == {{}, {"a.log"}, {"a.log", "b.txt"}}

\* patterns of discover_log_files, each with the file it finds.
GlobOrder == <<"a.log", "b.txt">>

\* glob.glob per pattern, in pattern order, appended to self.log_files.
discover_log_files(dir, files) ==
    files \o SelectSeq(GlobOrder, LAMBDA f : f \in dir)

Init ==
    /\ log_dir \in Directories
    /\ log_files = <<>> /\ task_segments = <<>> /\ position_data = <<>>
    /\ anomalies = <<>>
    /\ pc = "discover" /\ file_idx = 0
    /\ current_task = <<>> /\ task_start_time = NoTimestamp
    /\ scanned = <<>> /\ scan_base = 0 /\ lines_read = 0 /\ open_at_eof = {}
    /\ RunIdle
    /\ LineIdle /\ StopIdle /\ RestIdle

\* analyze_all_logs: self.discover_log_files()
DiscoverLogFiles ==
    /\ pc = "discover"
    /\ log_files' = discover_log_files(log_dir, log_files)
    /\ pc' = "loop"
    /\ UNCHANGED <<log_dir, task_segments, position_data, anomalies, file_idx,
                   current_task, task_start_time, scanned, scan_base, lines_read,
                   open_at_eof, failed, run, contents, first_run,
                   lineVars, stopVars, restVars>>

\* A faulty variant of TaskAtEntry: the open task of the previous scan is kept.
TaskAtEntryKept(prev) == prev

\* analyze_log_file: current_task = None at entry.
TaskAtEntry(prev) == <<>>

\* for file_path in self.log_files: the call of analyze_log_file.
OpenFile ==
    /\ pc = "loop" /\ file_idx < Len(log_files)
    /\ file_idx' = file_idx + 1
    /\ current_task' = TaskAtEntry(current_task)
    /\ task_start_time' = IF TaskAtEntry(current_task) = <<>> THEN NoTimestamp
                          ELSE task_start_time
    /\ scanned' = <<>>
    /\ scan_base' = Len(task_segments)
    /\ pc' = "scan"
    /\ UNCHANGED <<log_dir, log_files, task_segments, position_data, anomalies,
                   lines_read, open_at_eof, failed, run, contents, first_run,
                   lineVars, stopVars, restVars>>

\* A faulty variant of LineSkipped: the line is classified whatever its timestamp.
LineSkippedNever(timestamp) == FALSE

\* if not timestamp: continue
LineSkipped(timestamp) == timestamp = NoTimestamp

\* A faulty variant of TaskOpens: every task_start line opens a task.
TaskOpensAlways(phase, cur) == phase = "task_start"

\* if phase in ['task_start'] and not current_task
TaskOpens(phase, cur) == phase = "task_start" /\ cur = <<>>

\* elif phase in ['task_end'] and current_task
TaskCloses(phase, cur) ==
    ~TaskOpens(phase, cur) /\ phase = "task_end" /\ cur # <<>>

\* A faulty variant of TaskAfterClose: the closed task stays the current task.
TaskAfterCloseKept(cur) == cur

\* current_task = None after the append.
TaskAfterClose(cur) == <<>>

\* The task dict created at a task_start.
NewTask(timestamp, file) ==
    [start_time |-> timestamp, type |-> "task", file |-> file, events |-> <<>>]

\* A faulty variant of ClosedTask: the operands of the subtraction are swapped.
ClosedTaskSwapped(task, start, timestamp, file) ==
    [start_time |-> task.start_time, type |-> task.type, file |-> task.file,
     events |-> task.events, end_time |-> timestamp,
     duration |-> start - timestamp, end_file |-> file]

\* The dict appended at a task_end: end_time and duration are set on the
\* open task.  end_file is history: the file whose scan closed the task.
ClosedTask(task, start, timestamp, file) ==
    [start_time |-> task.start_time, type |-> task.type, file |-> task.file,
     events |-> task.events, end_time |-> timestamp,
     duration |-> timestamp - start, end_file |-> file]

\* anomaly['file'] = os.path.basename(file_path)
WithFile(detected, file) ==
    [k \in 1..Len(detected) |-> [detected[k] EXCEPT !.file = file]]

\* One iteration of the loop over the lines of the file.
ScanLine(l) ==
    LET timestamp == parse_timestamp(l)
        file == log_files[file_idx]
        phase == detect_task_phase(l)
        opens == TaskOpens(phase, current_task)
        closes == TaskCloses(phase, current_task)
        task1 == IF opens THEN <<NewTask(timestamp, file)>>
                 ELSE IF closes THEN TaskAfterClose(current_task)
                 ELSE current_task
        start1 == IF opens THEN timestamp
                  ELSE IF closes /\ TaskAfterClose(current_task) = <<>> THEN NoTimestamp
                  ELSE task_start_time
        position == extract_position_info(l, timestamp)
        detected == WithFile(detect_anomalies(l, timestamp), file)
        event == [timestamp |-> timestamp, position |-> position,
                  anomalies |-> detected]
    IN
    /\ scanned' = Append(scanned, l)
    /\ lines_read' = lines_read + 1
    /\ IF LineSkipped(timestamp)
       THEN UNCHANGED <<task_segments, position_data, anomalies, current_task,
                        task_start_time>>
       ELSE /\ task_segments' =
                  IF closes
                  THEN Append(task_segments,
                              ClosedTask(current_task[1], task_start_time,
                                         timestamp, file))
                  ELSE task_segments
            /\ position_data' = position_data \o position
            /\ anomalies' = anomalies \o detected
            /\ current_task' =
                  IF task1 # <<>>
                  THEN <<[task1[1] EXCEPT !.events = Append(@, event)]>>
                  ELSE <<>>
            /\ task_start_time' = start1
    /\ UNCHANGED <<log_dir, log_files, pc, file_idx, scan_base, open_at_eof,
                   failed, run, contents, first_run, lineVars, stopVars, restVars>>

\* The lines of the file are fixed (they are the same each time it is read).
Known(file) == file \in DOMAIN contents

\* The next line of the file: the line the file holds there when its lines
\* are fixed, any line otherwise.
ReadLine ==
    /\ pc = "scan"
    /\ IF Known(log_files[file_idx])
       THEN /\ Len(scanned) < Len(contents[log_files[file_idx]])
            /\ ScanLine(contents[log_files[file_idx]][Len(scanned) + 1])
       ELSE /\ lines_read < MaxLines
            /\ \E l \in ScanLines : ScanLine(l)

\* The end of the file: analyze_log_file returns; its locals are dead.
EndOfFile ==
    /\ pc = "scan"
    /\ Known(log_files[file_idx])
           => Len(scanned) = Len(contents[log_files[file_idx]])
    /\ pc' = "loop"
    /\ open_at_eof' = IF current_task # <<>>
                      THEN open_at_eof \cup {log_files[file_idx]}
                      ELSE open_at_eof
    /\ UNCHANGED <<log_dir, log_files, task_segments, position_data, anomalies,
                   file_idx, current_task, task_start_time, scanned, scan_base,
                   lines_read, failed, run, contents, first_run,
                   lineVars, stopVars, restVars>>

\* A faulty variant of AfterFileFailure: the exception leaves analyze_all_logs.
AfterFileFailureRaise == "raised"

\* except Exception as e: self.logger.error(...); the loop goes on.
AfterFileFailure == "loop"

\* open() or a read of the file raises: analyze_log_file is left where it
\* stands, with what it appended so far.
FileRaises ==
    /\ pc = "scan"
    /\ pc' = AfterFileFailure
    /\ failed' = failed \cup {<<run, file_idx>>}
    /\ UNCHANGED <<log_dir, log_files, task_segments, position_data, anomalies,
                   file_idx, current_task, task_start_time, scanned, scan_base,
                   lines_read, open_at_eof, run, contents, first_run,
                   lineVars, stopVars, restVars>>

\* The four collections of the analyzer.
Collections ==
    [log_files |-> log_files, task_segments |-> task_segments,
     position_data |-> position_data, anomalies |-> anomalies]

\* The loop over self.log_files is exhausted.
Finish ==
    /\ pc = "loop" /\ file_idx = Len(log_files)
    /\ pc' = "done"
    /\ first_run' = IF run = 1 THEN <<Collections>> ELSE first_run
    /\ UNCHANGED <<log_dir, log_files, task_segments, position_data, anomalies,
                   file_idx, current_task, task_start_time, scanned, scan_base,
                   lines_read, open_at_eof, failed, run, contents,
                   lineVars, stopVars, restVars>>

Next == DiscoverLogFiles \/ OpenFile \/ ReadLine \/ EndOfFile \/ FileRaises \/ Finish

Spec == Init /\ [][Next]_vars

(***************************************************************************)
(* analyze_all_logs called again on the same object (SpecRerun).           *)
(***************************************************************************)
MaxRuns == 2        \* analyze_all_logs calls on one object

\* A further call of analyze_all_logs: nothing is reset on entry, and the
\* loop starts over self.log_files.
Rerun ==
    /\ pc = "done" /\ run < MaxRuns
    /\ run' = run + 1
    /\ pc' = "discover"
    /\ file_idx' = 0
    /\ UNCHANGED <<log_dir, log_files, task_segments, position_data, anomalies,
                   current_task, task_start_time, scanned, scan_base, lines_read,
                   open_at_eof, failed, contents, first_run,
                   lineVars, stopVars, restVars>>

NextRerun ==
    DiscoverLogFiles \/ OpenFile \/ ReadLine \/ EndOfFile \/ FileRaises \/ Finish
    \/ Rerun

\* The lines a file of the directory holds from one run to the next.
FileBodies ==
    { <<>>,
      <<Line(At(0), {"task_start"}, {}, FALSE, FALSE, {}),
        Line(At(5), {"task_end"}, {}, FALSE, FALSE, {})>>,
      <<Line(At(0), {"task_start"}, {}, FALSE, FALSE, {}),
        Line(At(5), {}, {}, FALSE, FALSE, {PosMatch("slam_pose", TRUE, 1, 2, 0)}),
        Line(At(10), {"task_end"}, {}, FALSE, FALSE, {})>>,
      <<Line(At(5), {"charging"}, {<<"mechanical_issue", 3>>}, TRUE, FALSE, {}),
        Line(At(5), {"task_start"}, {}, FALSE, FALSE, {})>> }

InitRerun ==
    /\ log_dir \in Directories
    /\ contents \in [log_dir -> FileBodies]
    /\ log_files = <<>> /\ task_segments = <<>> /\ position_data = <<>>
    /\ anomalies = <<>>
    /\ pc = "discover" /\ file_idx = 0
    /\ current_task = <<>> /\ task_start_time = NoTimestamp
    /\ scanned = <<>> /\ scan_base = 0 /\ lines_read = 0 /\ open_at_eof = {}
    /\ failed = {} /\ run = 1 /\ first_run = <<>>
    /\ LineIdle /\ StopIdle /\ RestIdle

SpecRerun == InitRerun /\ [][NextRerun]_vars


(***************************************************************************)
(* SpecStop: one call of detect_stop_points on a position list.            *)
(* Coordinates and the movement threshold are counted in units of 0.01 m,  *)
(* so that the default threshold 0.01 is 1; a mean sum/n is compared with  *)
(* the threshold as sum < T * n.                                           *)
(***************************************************************************)
\* The position records of the list: Slam poses at three instants, a minute
\* apart, at the given places.
StopPositions(places) ==
    {PositionRecord("slam_pose", PosMatch("slam_pose", TRUE, xy[1], xy[2], 0), t) :
        xy \in places, t \in {36000, 36060, 36120}}

RECURSIVE PositionLists(_, _)
PositionLists(n, places) ==
    IF n = 0 THEN {<<>>}
    ELSE LET shorter == PositionLists(n - 1, places) IN
         shorter \cup {Append(s, r) : s \in {q \in shorter : Len(q) = n - 1},
                                      r \in StopPositions(places)}

\* Slam poses at five instants twenty seconds apart, at the given places.
SpacedPositions(places) ==
    {PositionRecord("slam_pose", PosMatch("slam_pose", TRUE, xy[1], xy[2], 0), t) :
        xy \in places, t \in {36000, 36020, 36040, 36060, 36080}}

\* The lists of at most n of them whose timestamps are all distinct, in
\* every insertion order.
RECURSIVE SpacedLists(_, _)
SpacedLists(n, places) ==
    IF n = 0 THEN {<<>>}
    ELSE LET shorter == SpacedLists(n - 1, places) IN
         shorter \cup
         UNION {{Append(s, r) :
                    r \in {q \in SpacedPositions(places) :
                              \A k \in 1..Len(s) : s[k].timestamp # q.timestamp}} :
                s \in {q \in shorter : Len(q) = n - 1}}

\* The lists handed to each detector: RobotLogAnalyzer's needs five points
\* in its window, so its lists are one longer and visit two places only;
\* ComprehensiveRobotAnalyzer is also given the lists of distinct timestamps.
StopInputs(variant) ==
    IF variant = "RobotLogAnalyzer"
    THEN PositionLists(MaxPos + 1, {<<0, 0>>, <<1, 0>>})
    ELSE PositionLists(MaxPos, {<<0, 0>>, <<1, 0>>, <<0, 1>>})
         \cup SpacedLists(MaxPos + 1, {<<0, 0>>, <<1, 0>>})

\* The arguments of the call.
Windows == {1}
Thresholds == {0, 1}

\* sorted(self.position_data, key=lambda x: x['timestamp']): a stable sort.
RECURSIVE InsertByTimestamp(_, _)
InsertByTimestamp(sorted, r) ==
    IF sorted = <<>> THEN <<r>>
    ELSE IF Last(sorted).timestamp <= r.timestamp THEN Append(sorted, r)
    ELSE Append(InsertByTimestamp(SubSeq(sorted, 1, Len(sorted) - 1), r), Last(sorted))

RECURSIVE SortedByTimestamp(_)

SortedByTimestamp(positions) ==
    IF positions = <<>> THEN <<>>
    ELSE InsertByTimestamp(SortedByTimestamp(SubSeq(positions, 1, Len(positions) - 1)),
                           Last(positions))

\* A faulty variant of OutOfWindow: a point exactly W minutes old is dropped too.
OutOfWindowInclusive(newer, older, W) == newer.timestamp - older.timestamp >= W * 60

\* (newer['timestamp'] - older['timestamp']).total_seconds() > W * 60
OutOfWindow(newer, older, W) == newer.timestamp - older.timestamp > W * 60

\* while window_start < i and <out of window>: window_start += 1
RECURSIVE AdvanceWindow(_, _, _, _)
AdvanceWindow(ws, i, sorted, W) ==
    IF ws < i /\ OutOfWindow(sorted[i + 1], sorted[ws + 1], W)
    THEN AdvanceWindow(ws + 1, i, sorted, W)
    ELSE ws

\* while position_window and <out of window>: position_window.popleft()
RECURSIVE PopOld(_, _, _)
PopOld(window, position, W) ==
    IF window # <<>> /\ OutOfWindow(position, window[1], W)
    THEN PopOld(Tail(window), position, W)
    ELSE window

\* if i - window_start >= 3
MinWindowGap == 3
\* if len(position_window) >= 5
MinDequeLen == 5
\* if avg_x_change < 0.01 and avg_y_change < 0.01 (RobotLogAnalyzer)
FixedThreshold == 1

AbsDiff(a, b) == IF a >= b THEN a - b ELSE b - a

\* sum(abs(w[j]['x'] - w[j-1]['x']) for j in range(1, len(w))), and for y.
RECURSIVE SumXChanges(_)
SumXChanges(w) ==
    IF Len(w) < 2 THEN 0
    ELSE SumXChanges(SubSeq(w, 1, Len(w) - 1)) + AbsDiff(w[Len(w)].x, w[Len(w) - 1].x)
RECURSIVE SumYChanges(_)
SumYChanges(w) ==
    IF Len(w) < 2 THEN 0
    ELSE SumYChanges(SubSeq(w, 1, Len(w) - 1)) + AbsDiff(w[Len(w)].y, w[Len(w) - 1].y)

\* avg_x_change < T and avg_y_change < T, the averages over len(w) - 1 changes.
LowMovement(w, T) ==
    /\ SumXChanges(w) < T * (Len(w) - 1)
    /\ SumYChanges(w) < T * (Len(w) - 1)

\* The stop_point dict.  avg_movement is the fraction <<numerator,
\* denominator>>; idx is history: the loop index that appended the point.
StopPoint(position, W, w, i) ==
    [timestamp |-> position.timestamp, position |-> position,
     duration_minutes |-> W,
     avg_movement |-> <<SumXChanges(w) + SumYChanges(w), 2 * (Len(w) - 1)>>,
     window_size |-> Len(w), idx |-> i]

InitStop ==
    /\ sp_variant \in {"ComprehensiveRobotAnalyzer", "RobotLogAnalyzer"}
    /\ sp_W \in Windows
    /\ sp_T \in IF sp_variant = "RobotLogAnalyzer" THEN {FixedThreshold} ELSE Thresholds
    /\ position_data \in StopInputs(sp_variant)
    /\ sorted_positions = <<>> /\ sp_i = 0 /\ window_start = 0
    /\ position_window = <<>> /\ stop_points = <<>> /\ sp_pc = "start"
    /\ log_dir = {} /\ log_files = <<>> /\ task_segments = <<>> /\ anomalies = <<>>
    /\ pc = "idle" /\ file_idx = 0 /\ current_task = <<>>
    /\ task_start_time = NoTimestamp /\ scanned = <<>> /\ scan_base = 0
    /\ lines_read = 0 /\ open_at_eof = {}
    /\ RunIdle
    /\ LineIdle /\ RestIdle

\* ComprehensiveRobotAnalyzer: if not self.position_data: return stop_points
StopEarlyReturn ==
    /\ sp_pc = "start"
    /\ sp_variant = "ComprehensiveRobotAnalyzer" /\ position_data = <<>>
    /\ sp_pc' = "done"
    /\ UNCHANGED <<sp_variant, sp_W, sp_T, sorted_positions, sp_i, window_start,
                   position_window, stop_points, lineVars, scanVars, restVars>>

\* sorted_positions = sorted(...); window_start = 0 / position_window = deque()
StopSort ==
    /\ sp_pc = "start"
    /\ ~(sp_variant = "ComprehensiveRobotAnalyzer" /\ position_data = <<>>)
    /\ sorted_positions' = SortedByTimestamp(position_data)
    /\ sp_i' = 0 /\ window_start' = 0 /\ position_window' = <<>>
    /\ sp_pc' = "loop"
    /\ UNCHANGED <<sp_variant, sp_W, sp_T, stop_points, lineVars, scanVars, restVars>>

\* One iteration of ComprehensiveRobotAnalyzer.detect_stop_points' loop.
StopIterComprehensive ==
    /\ sp_pc = "loop" /\ sp_variant = "ComprehensiveRobotAnalyzer"
    /\ sp_i < Len(sorted_positions)
    /\ LET ws == AdvanceWindow(window_start, sp_i, sorted_positions, sp_W)
           w == SubSeq(sorted_positions, ws + 1, sp_i + 1)
       IN /\ window_start' = ws
          /\ stop_points' =
                IF sp_i - ws >= MinWindowGap /\ LowMovement(w, sp_T)
                THEN Append(stop_points,
                            StopPoint(sorted_positions[sp_i + 1], sp_W, w, sp_i))
                ELSE stop_points
    /\ sp_i' = sp_i + 1
    /\ UNCHANGED <<sp_variant, sp_W, sp_T, sorted_positions, position_window, sp_pc,
                   lineVars, scanVars, restVars>>

\* One iteration of RobotLogAnalyzer.detect_stop_points' loop.
StopIterRobotLog ==
    /\ sp_pc = "loop" /\ sp_variant = "RobotLogAnalyzer"
    /\ sp_i < Len(sorted_positions)
    /\ LET position == sorted_positions[sp_i + 1]
           w == PopOld(Append(position_window, position), position, sp_W)
       IN /\ position_window' = w
          /\ stop_points' =
                IF Len(w) >= MinDequeLen /\ LowMovement(w, FixedThreshold)
                THEN Append(stop_points, StopPoint(position, sp_W, w, sp_i))
                ELSE stop_points
    /\ sp_i' = sp_i + 1
    /\ UNCHANGED <<sp_variant, sp_W, sp_T, sorted_positions, window_start, sp_pc,
                   lineVars, scanVars, restVars>>

\* return stop_points
StopReturn ==
    /\ sp_pc = "loop" /\ sp_i = Len(sorted_positions)
    /\ sp_pc' = "done"
    /\ UNCHANGED <<sp_variant, sp_W, sp_T, sorted_positions, sp_i, window_start,
                   position_window, stop_points, lineVars, scanVars, restVars>>

NextStop ==
    StopEarlyReturn \/ StopSort \/ StopIterComprehensive \/ StopIterRobotLog
    \/ StopReturn

SpecStop == InitStop /\ [][NextStop]_vars

(***************************************************************************)
(* ComplaintAnalyzer.analyze_complaint_scenario (specification             *)
(* SpecComplaint).  ComprehensiveRobotAnalyzer.analyze_complaint_scenario  *)
(* runs the same three joins over detect_stop_points(), self.anomalies and *)
(* self.position_data.  Coordinates are in centimetres.                    *)
(***************************************************************************)
MaxEvents == 2      \* records in stop_events and in anomaly_events

\* stop_detection_params['movement_threshold'] = 0.01 m, in centimetres.
movement_threshold == 1

\* stop_detection_params['time_window_minutes']
stop_window_minutes == 5

\* A stop event appended by analyze_movement_pattern (reason "movement": the
\* dict has no 'reason' key and carries duration_minutes) or by
\* detect_stop_related_logs (the dict has 'reason' and no duration_minutes).
StopEvent(t, reason) ==
    IF reason = "movement"
    THEN [timestamp |-> t, type |-> "movement_analysis", reason |-> <<>>,
          duration_minutes |-> <<stop_window_minutes>>]
    ELSE [timestamp |-> t, type |-> "log_analysis", reason |-> <<reason>>,
          duration_minutes |-> <<>>]

ComplaintInstants == {35940, 35999, 36000, 36060, 36061}

StopEvents ==
    {StopEvent(t, r) : t \in ComplaintInstants, r \in {"movement", "battery_low"}}

AnomalyEvents ==
    {[timestamp |-> t, type |-> "sensor_offline", severity |-> s] :
        t \in {36000, 36061}, s \in {"high", "low"}}

\* Corners of a 3 cm by 4 cm rectangle: every distance between two of them
\* is a whole number of centimetres.
ComplaintPlaces == {<<0, 0>>, <<3, 0>>, <<3, 4>>}

ComplaintPositions ==
    {[timestamp |-> t, x |-> xy[1], y |-> xy[2], type |-> "slam_pose"] :
        t \in {35940, 36000, 36060}, xy \in ComplaintPlaces}

RECURSIVE ListsUpTo(_, _)
ListsUpTo(n, S) ==
    IF n = 0 THEN {<<>>}
    ELSE LET shorter == ListsUpTo(n - 1, S) IN
         shorter \cup {Append(q, r) : q \in {l \in shorter : Len(l) = n - 1}, r \in S}

\* abs((a - b).total_seconds())
total_seconds_abs(a, b) == IF a >= b THEN a - b ELSE b - a

\* time_diff <= time_window_seconds
NearbyStrict(t, c, w) == total_seconds_abs(t, c) < w * 60

Nearby(t, c, w) == total_seconds_abs(t, c) <= w * 60

\* for e in coll: if time_diff <= time_window_seconds: nearby.append(e)
RECURSIVE NearbyOf(_, _, _)
NearbyOf(coll, c, w) ==
    IF coll = <<>> THEN <<>>
    ELSE LET rest == NearbyOf(SubSeq(coll, 1, Len(coll) - 1), c, w) IN
         IF Nearby(Last(coll).timestamp, c, w) THEN Append(rest, Last(coll)) ELSE rest

\* [p for p in coll if lo <= p['timestamp'] <= hi]
RECURSIVE Between(_, _, _)
Between(coll, lo, hi) ==
    IF coll = <<>> THEN <<>>
    ELSE LET rest == Between(SubSeq(coll, 1, Len(coll) - 1), lo, hi) IN
         IF lo <= Last(coll).timestamp /\ Last(coll).timestamp <= hi
         THEN Append(rest, Last(coll)) ELSE rest

\* (dx**2 + dy**2)**0.5 for points whose distance is a whole number.
Sqrt(n) == CHOOSE r \in 0..n : r * r = n

Distance(p, q) == Sqrt((q.x - p.x) * (q.x - p.x) + (q.y - p.y) * (q.y - p.y))

RECURSIVE total_distance(_)
total_distance(positions) ==
    IF Len(positions) < 2 THEN 0
    ELSE total_distance(SubSeq(positions, 1, Len(positions) - 1))
         + Distance(positions[Len(positions) - 1], Last(positions))

\* assess_movement_pattern: threshold = movement_threshold * len(positions)
assess_movement_pattern(positions) ==
    IF Len(positions) < 2 THEN "unknown"
    ELSE IF total_distance(positions) < movement_threshold * Len(positions)
    THEN "stopped"
    ELSE "moving"

\* if len(subset) >= 2: movement = self.assess_movement_pattern(subset)
MovementOf(subset) ==
    IF Len(subset) >= 2 THEN assess_movement_pattern(subset) ELSE "unknown"

\* A faulty variant of movement_trend: a stopped robot before the complaint
\* counts as a continuous stop whatever follows.
movement_trend_pre_only(pre, post) ==
    IF pre # "unknown" /\ post # "unknown"
    THEN IF pre = "moving" /\ post = "stopped" THEN "stopped_after_complaint"
         ELSE IF pre = "stopped" THEN "continuous_stop"
         ELSE "unknown"
    ELSE "unknown"

\* analyze_movement_around_complaint: the if / elif chain on the pair.
movement_trend(pre, post) ==
    IF pre # "unknown" /\ post # "unknown"
    THEN IF pre = "moving" /\ post = "stopped" THEN "stopped_after_complaint"
         ELSE IF pre = "stopped" /\ post = "moving" THEN "resumed_after_complaint"
         ELSE IF pre = "stopped" /\ post = "stopped" THEN "continuous_stop"
         ELSE "unknown"
    ELSE "unknown"

RECURSIVE SumDurations(_)
SumDurations(stops) ==
    IF stops = <<>> THEN 0
    ELSE SumDurations(SubSeq(stops, 1, Len(stops) - 1))
         + (IF Last(stops).duration_minutes # <<>>
            THEN Last(stops).duration_minutes[1] ELSE 0)

calculate_stop_duration_around_complaint(stops, c, w) ==
    SumDurations(Between(stops, c - w * 60, c + w * 60))

analyze_movement_around_complaint(positions, stops, c, w) ==
    LET pre == MovementOf(Between(positions, c - w * 60, c))
        post == MovementOf(Between(positions, c, c + w * 60))
    IN  [pre_complaint_movement |-> pre,
         post_complaint_movement |-> post,
         movement_trend |-> movement_trend(pre, post),
         stop_duration_minutes |-> calculate_stop_duration_around_complaint(stops, c, w)]

\* The entries of a list, each turned into a 'stop_event' cause.
RECURSIVE StopCauses(_)
StopCauses(stops) ==
    IF stops = <<>> THEN <<>>
    ELSE Append(StopCauses(SubSeq(stops, 1, Len(stops) - 1)),
                [type |-> "stop_event", timestamp |-> Last(stops).timestamp,
                 confidence |-> "high"])

\* [a for a in anomalies_nearby if a.get('severity') == 'high']
RECURSIVE HighSeverity(_)
HighSeverity(anoms) ==
    IF anoms = <<>> THEN <<>>
    ELSE LET rest == HighSeverity(SubSeq(anoms, 1, Len(anoms) - 1)) IN
         IF Last(anoms).severity = "high" THEN Append(rest, Last(anoms)) ELSE rest

analyze_root_cause(stops_nearby, anomalies_nearby, movement, c) ==
    StopCauses(stops_nearby)
    \o (IF HighSeverity(anomalies_nearby) # <<>>
        THEN <<[type |-> "system_anomaly",
                timestamp |-> HighSeverity(anomalies_nearby)[1].timestamp,
                confidence |-> "medium"]>>
        ELSE <<>>)
    \o (IF movement.movement_trend = "continuous_stop"
        THEN <<[type |-> "continuous_stop", timestamp |-> c, confidence |-> "medium"]>>
        ELSE <<>>)

\* s.get('reason', 'unknown') / a.get('type', 'unknown') over a list.
Reasons(stops) ==
    {IF stops[i].reason # <<>> THEN stops[i].reason[1] ELSE "unknown" :
        i \in 1..Len(stops)}

AnomalyTypes(anoms) == {anoms[i].type : i \in 1..Len(anoms)}

\* The rule keys of the recommendations, in the order they are appended.
generate_complaint_recommendations(stops_nearby, anomalies_nearby, movement) ==
    LET rules == <<
            <<"obstacle_blocked", "obstacle_blocked" \in Reasons(stops_nearby)>>,
            <<"navigation_error", "navigation_error" \in Reasons(stops_nearby)>>,
            <<"sensor_failure", "sensor_failure" \in Reasons(stops_nearby)>>,
            <<"battery_low", "battery_low" \in Reasons(stops_nearby)>>,
            <<"sensor_offline", "sensor_offline" \in AnomalyTypes(anomalies_nearby)>>,
            <<"cpu_high", "cpu_high" \in AnomalyTypes(anomalies_nearby)>>,
            <<"continuous_stop", movement.movement_trend = "continuous_stop">> >>
        fired == SelectSeq(rules, LAMBDA r : r[2])
    IN  IF fired = <<>> THEN <<"no_obvious_cause">>
        ELSE [i \in 1..Len(fired) |-> fired[i][1]]

analyze_complaint_scenario(c, w) ==
    LET stops_nearby == NearbyOf(stop_events, c, w)
        anomalies_nearby == NearbyOf(anomaly_events, c, w)
        positions_nearby == NearbyOf(ca_position_data, c, w)
        movement == analyze_movement_around_complaint(ca_position_data, stop_events, c, w)
    IN  [complaint_time |-> c,
         time_window_minutes |-> w,
         stop_events_nearby |-> stops_nearby,
         anomalies_nearby |-> anomalies_nearby,
         position_data_nearby |-> positions_nearby,
         movement_analysis |-> movement,
         root_cause_analysis |->
             analyze_root_cause(stops_nearby, anomalies_nearby, movement, c),
         recommendations |->
             generate_complaint_recommendations(stops_nearby, anomalies_nearby, movement)]

CoreIdle == ScanIdle /\ StopIdle /\ LineIdle

\* The collections the call finds: the position list is varied with no
\* events, the events with a robot standing at one place.
InitComplaint ==
    /\ \/ /\ ca_position_data \in ListsUpTo(MaxEvents + 1, ComplaintPositions)
          /\ stop_events = <<>> /\ anomaly_events = <<>>
       \/ /\ ca_position_data =
                [i \in 1..3 |-> [timestamp |-> 35940 + 60 * (i - 1),
                                 x |-> 0, y |-> 0, type |-> "slam_pose"]]
          /\ stop_events \in ListsUpTo(MaxEvents, StopEvents)
          /\ anomaly_events \in ListsUpTo(MaxEvents, AnomalyEvents)
    /\ complaint_time = NoTimestamp /\ time_window_minutes = 0
    /\ complaint_analysis = <<>>
    /\ CoreIdle /\ TraceIdle /\ ReportIdle /\ DetectIdle /\ ExtractIdle
    /\ AiIdle

AnalyzeComplaintScenario ==
    /\ complaint_analysis = <<>>
    /\ \E c \in {36000, 36060}, w \in 0..2 :
          /\ complaint_time' = c
          /\ time_window_minutes' = w
          /\ complaint_analysis' = <<analyze_complaint_scenario(c, w)>>
    /\ UNCHANGED <<stop_events, anomaly_events, ca_position_data,
                   lineVars, scanVars, stopVars, traceVars, reportVars,
                   detectVars, extractVars, aiVars>>

NextComplaint == AnalyzeComplaintScenario

SpecComplaint == InitComplaint /\ [][NextComplaint]_vars

(***************************************************************************)
(* perform_historical_trace of HistoricalTraceAnalyzer and of              *)
(* ComprehensiveRobotAnalyzer (specification SpecTrace).  A slope is the   *)
(* exact fraction <<numerator, denominator>>.                              *)
(***************************************************************************)
MaxTasks == 4       \* task segments held when perform_historical_trace runs

\* trace_params['lookback_tasks'] and the default of the parameter
DefaultLookback == 2

\* An event of a task: HistoricalTraceAnalyzer reads its 'type',
\* ComprehensiveRobotAnalyzer its 'anomalies'.
TraceEvent(type) == [type |-> type, anomalies |-> (type = "error")]

\* n 'error' events after one 'general' event.
RECURSIVE ErrorEvents(_)
ErrorEvents(n) ==
    IF n = 0 THEN <<TraceEvent("general")>>
    ELSE Append(ErrorEvents(n - 1), TraceEvent("error"))

TraceTask(start_time, duration, status, errors) ==
    [start_time |-> start_time, end_time |-> start_time + duration,
     duration |-> duration, status |-> status, events |-> ErrorEvents(errors)]

TraceInstants == {36000, 36600, 37200}

\* Tasks in any order of their start times.
UnorderedTasks ==
    {TraceTask(t, d, "success", 0) : t \in TraceInstants, d \in {300, 400}}

\* Lists of k tasks starting ten minutes apart, the i-th built by Mk(i, v[i]).
ValuedTasks(values, k, Mk(_, _)) ==
    {[i \in 1..k |-> Mk(i, v[i])] : v \in [1..k -> values]}

DurationTask(i, d) ==
    TraceTask(36000 + 600 * i, d, IF d > 100 THEN "failure" ELSE "success", 0)

ErrorTask(i, n) == TraceTask(36000 + 600 * i, 300, "success", n)

TraceDurations == {60, 72, 80, 110, 150}

TraceErrorCounts == {0, 1, 2}

TraceInputs ==
    ListsUpTo(MaxTasks, UnorderedTasks)
    \cup UNION {ValuedTasks(TraceDurations, k, DurationTask) : k \in 2..MaxTasks}
    \cup UNION {ValuedTasks(TraceErrorCounts, k, ErrorTask) : k \in 2..MaxTasks}

\* sorted(..., key=lambda x: x['start_time']): a stable sort.
RECURSIVE InsertByStartTime(_, _)
InsertByStartTime(sorted, r) ==
    IF sorted = <<>> THEN <<r>>
    ELSE IF Last(sorted).start_time <= r.start_time THEN Append(sorted, r)
    ELSE Append(InsertByStartTime(SubSeq(sorted, 1, Len(sorted) - 1), r), Last(sorted))

RECURSIVE SortedByStartTime(_)
SortedByStartTime(tasks) ==
    IF tasks = <<>> THEN <<>>
    ELSE InsertByStartTime(SortedByStartTime(SubSeq(tasks, 1, Len(tasks) - 1)),
                           Last(tasks))

\* The loop over enumerate(sorted_tasks): the index (0-based) of the first
\* task whose start_time is nearest to the target time.
RECURSIVE NearestIndex(_, _, _, _, _)
NearestIndex(sorted_tasks, target_time, i, best, min_time_diff) ==
    IF i >= Len(sorted_tasks) THEN best
    ELSE LET time_diff == total_seconds_abs(sorted_tasks[i + 1].start_time, target_time)
         IN  IF min_time_diff = <<>> \/ time_diff < min_time_diff[1]
             THEN NearestIndex(sorted_tasks, target_time, i + 1, i, <<time_diff>>)
             ELSE NearestIndex(sorted_tasks, target_time, i + 1, best, min_time_diff)

\* s[a:b] of Python for a >= 0 (0-based, b exclusive, a negative b counts
\* from the end).
PySlice(s, a, b) ==
    LET hi == IF b < 0 THEN (IF Len(s) + b < 0 THEN 0 ELSE Len(s) + b)
              ELSE IF b > Len(s) THEN Len(s) ELSE b
    IN  SubSeq(s, a + 1, hi)

Max(a, b) == IF a >= b THEN a ELSE b

Min(a, b) == IF a <= b THEN a ELSE b

\* A faulty variant of start_index: the window opens at the target.
start_index_at_target(target_task_index, lookback) == Max(0, target_task_index)

\* start_index = max(0, target_task_index - lookback_tasks)
start_index(target_task_index, lookback) == Max(0, target_task_index - lookback)

\* end_index = min(len(sorted_tasks), target_task_index + 1)
end_index(sorted_tasks, target_task_index) == Min(Len(sorted_tasks), target_task_index + 1)

RECURSIVE SumSeq(_)
SumSeq(s) == IF s = <<>> THEN 0 ELSE SumSeq(SubSeq(s, 1, Len(s) - 1)) + Last(s)

\* [task.get('duration', 0) for task in task_sequence]
durations(task_sequence) == [i \in 1..Len(task_sequence) |-> task_sequence[i].duration]

CountEvents(task, type) ==
    Cardinality({j \in 1..Len(task.events) : task.events[j].type = type})

\* sum(1 for event in task.get('events', []) if event['type'] == 'error')
error_counts(task_sequence) ==
    [i \in 1..Len(task_sequence) |-> CountEvents(task_sequence[i], "error")]

\* A faulty variant of ExceedsBy20Percent: twenty percent more is enough.
ExceedsBy20PercentOrEqual(prev, cur) == 5 * cur >= 6 * prev

\* durations[i] > durations[i-1] * 1.2
ExceedsBy20Percent(prev, cur) == 5 * cur > 6 * prev

\* all(P(values[i-1], values[i]) for i in range(1, len(values)))
AllConsecutive(values, P(_, _)) ==
    \A i \in 2..Len(values) : P(values[i - 1], values[i])

Increases(prev, cur) == cur > prev

\* analyze_cross_task_patterns with self.system_status_data empty.
analyze_cross_task_patterns(task_sequence) ==
    IF Len(task_sequence) < 2
    THEN [performance_degradation |-> FALSE, error_escalation |-> FALSE,
          resource_trend |-> "stable"]
    ELSE [performance_degradation |->
              IF Len(durations(task_sequence)) >= 3
              THEN AllConsecutive(durations(task_sequence), ExceedsBy20Percent)
              ELSE FALSE,
          error_escalation |->
              IF Len(error_counts(task_sequence)) >= 2
              THEN AllConsecutive(error_counts(task_sequence), Increases)
              ELSE FALSE,
          resource_trend |-> "stable"]

\* The value a division by zero leaves in place of a slope.
ZeroDivisionError == <<0, 0>>

\* calculate_trend: x = 0 .. n-1, y = values.
calculate_trend(values) ==
    IF Len(values) < 2 THEN <<0, 1>>
    ELSE LET n == Len(values)
             sum_x == SumSeq([i \in 1..n |-> i - 1])
             sum_y == SumSeq(values)
             sum_xy == SumSeq([i \in 1..n |-> (i - 1) * values[i]])
             sum_x2 == SumSeq([i \in 1..n |-> (i - 1) * (i - 1)])
             num == n * sum_xy - sum_x * sum_y
             den == n * sum_x2 - sum_x * sum_x
         IN  IF den = 0 THEN ZeroDivisionError ELSE <<num, den>>

\* A faulty variant of TrendOf: a slope of exactly 0.1 counts as a trend.
TrendOfInclusive(slope) ==
    IF 10 * slope[1] >= slope[2] THEN "increasing"
    ELSE IF 10 * slope[1] <= -slope[2] THEN "decreasing"
    ELSE "stable"

\* if slope > 0.1: 'increasing' elif slope < -0.1: 'decreasing' (the
\* denominator of a slope is positive).
TrendOf(slope) ==
    IF 10 * slope[1] > slope[2] THEN "increasing"
    ELSE IF 10 * slope[1] < -slope[2] THEN "decreasing"
    ELSE "stable"

analyze_trends(task_sequence) ==
    IF Len(task_sequence) < 2
    THEN [duration_trend |-> "stable", error_trend |-> "stable",
          performance_trend |-> "stable", stability_trend |-> "stable"]
    ELSE [duration_trend |-> TrendOf(calculate_trend(durations(task_sequence))),
          error_trend |-> TrendOf(calculate_trend(error_counts(task_sequence))),
          performance_trend |-> "stable", stability_trend |-> "stable"]

\* analyze_trends raises when a slope divides by zero.
TrendsRaise(task_sequence) ==
    /\ Len(task_sequence) >= 2
    /\ \/ calculate_trend(durations(task_sequence)) = ZeroDivisionError
       \/ calculate_trend(error_counts(task_sequence)) = ZeroDivisionError

\* detect_root_cause_indicators with self.system_status_data empty: the
\* 'type' of each indicator, in the order they are appended.
detect_root_cause_indicators(task_sequence) ==
    IF Len(task_sequence) < 2 THEN <<>>
    ELSE (IF Len(error_counts(task_sequence)) >= 3
             /\ AllConsecutive(error_counts(task_sequence), Increases)
          THEN <<"error_escalation">> ELSE <<>>)
         \o (IF Len(durations(task_sequence)) >= 3
                /\ AllConsecutive(durations(task_sequence), ExceedsBy20Percent)
             THEN <<"performance_degradation">> ELSE <<>>)

\* A faulty variant of success_rate: the ratio is not turned into a percentage.
success_ratio(success_count, n) == <<success_count, n>>

\* success_count / len(task_sequence) * 100
success_rate(success_count, n) == <<success_count * 100, n>>

\* analyze_task_sequence: the rates are fractions <<numerator, denominator>>.
analyze_task_sequence(task_sequence) ==
    LET n == Len(task_sequence)
        success_count == Cardinality({i \in 1..n : task_sequence[i].status = "success"})
        total_duration == SumSeq(durations(task_sequence))
    IN  [sequence_id |-> n,
         tasks |-> [i \in 1..n |->
                       [task_index |-> i - 1,
                        start_time |-> task_sequence[i].start_time,
                        duration_minutes |-> <<task_sequence[i].duration, 60>>,
                        status |-> task_sequence[i].status,
                        event_count |-> Len(task_sequence[i].events)]],
         total_duration_hours |-> <<total_duration, 3600>>,
         success_rate |-> IF n > 0 THEN success_rate(success_count, n) ELSE <<0, 1>>,
         avg_task_duration_minutes |->
             IF n > 0 THEN <<total_duration, n * 60>> ELSE <<0, 1>>,
         error_events |-> SumSeq(error_counts(task_sequence))]

\* sum(1 for event in task.get('events', []) if event.get('anomalies'))
anomaly_counts(task_sequence) ==
    [i \in 1..Len(task_sequence) |->
        Cardinality({j \in 1..Len(task_sequence[i].events) :
                        task_sequence[i].events[j].anomalies})]

\* ComprehensiveRobotAnalyzer: the last count against 1.5 times and 0.5
\* times the mean of the counts before it.
anomaly_trend(counts) ==
    IF Len(counts) >= 2
    THEN LET before == SubSeq(counts, 1, Len(counts) - 1) IN
         IF 2 * Last(counts) * Len(before) > 3 * SumSeq(before) THEN "increasing"
         ELSE IF 2 * Last(counts) * Len(before) < SumSeq(before) THEN "decreasing"
         ELSE "stable"
    ELSE "stable"

\* ComprehensiveRobotAnalyzer.perform_historical_trace's sequence_analysis.
sequence_analysis(task_sequence, first, last) ==
    [sequence_id |-> <<first + 1, last>>,
     tasks |-> [i \in 1..Len(task_sequence) |->
                   [start_time |-> task_sequence[i].start_time,
                    duration_minutes |-> <<task_sequence[i].duration, 60>>,
                    anomaly_count |-> anomaly_counts(task_sequence)[i]]],
     total_duration_hours |-> <<SumSeq(durations(task_sequence)), 3600>>,
     anomaly_count |-> SumSeq(anomaly_counts(task_sequence)),
     anomaly_trend |-> anomaly_trend(anomaly_counts(task_sequence))]

\* The lookback in force: the argument, or the default when it is omitted.
LookbackOf(lookback) == IF lookback = <<>> THEN DefaultLookback ELSE lookback[1]

\* The local `sequence` (<<>> when the function returns before the slice).
SequenceOf(variant, segments, target, lookback) ==
    IF segments = <<>> THEN <<>>
    ELSE LET sorted_tasks == SortedByStartTime(segments)
             k == IF target = <<>> THEN Len(sorted_tasks) - 1
                  ELSE IF variant = "HistoricalTraceAnalyzer"
                  THEN NearestIndex(sorted_tasks, target[1], 0, 0, <<>>)
                  ELSE target[1]
         IN  PySlice(sorted_tasks, start_index(k, LookbackOf(lookback)),
                     end_index(sorted_tasks, k))

TargetIndexOf(variant, segments, target) ==
    LET sorted_tasks == SortedByStartTime(segments) IN
    IF target = <<>> THEN Len(sorted_tasks) - 1
    ELSE IF variant = "HistoricalTraceAnalyzer"
    THEN NearestIndex(sorted_tasks, target[1], 0, 0, <<>>)
    ELSE target[1]

perform_historical_trace(variant, segments, target, lookback) ==
    LET k == TargetIndexOf(variant, segments, target)
        seq == SequenceOf(variant, segments, target, lookback)
    IN  IF segments = <<>> THEN [message |-> "no task data"]
        ELSE IF variant = "HistoricalTraceAnalyzer"
        THEN IF seq = <<>> THEN [message |-> "no task sequence"]
             ELSE IF TrendsRaise(seq) THEN [raised |-> "ZeroDivisionError"]
             ELSE [target_task_index |-> k,
                   lookback_tasks |-> LookbackOf(lookback),
                   target_task_time |-> target,
                   task_sequences |-> <<analyze_task_sequence(seq)>>,
                   cross_task_analysis |-> analyze_cross_task_patterns(seq),
                   trend_analysis |-> analyze_trends(seq),
                   root_cause_indicators |-> detect_root_cause_indicators(seq)]
        ELSE [target_task_index |-> k,
              lookback_tasks |-> LookbackOf(lookback),
              task_sequences |->
                  <<sequence_analysis(seq, start_index(k, LookbackOf(lookback)),
                                      end_index(SortedByStartTime(segments), k))>>,
              cross_task_anomalies |-> <<>>,
              trend_analysis |-> <<>>]

InitTrace ==
    /\ tr_variant \in {"HistoricalTraceAnalyzer", "ComprehensiveRobotAnalyzer"}
    /\ ht_task_segments \in TraceInputs
    /\ target_task = <<>> /\ lookback_tasks = <<>> /\ sequence = <<>>
    /\ trace_analysis = <<>>
    /\ CoreIdle /\ ComplaintIdle /\ ReportIdle /\ DetectIdle /\ ExtractIdle
    /\ AiIdle

\* The target argument: a time for HistoricalTraceAnalyzer, an index for
\* ComprehensiveRobotAnalyzer; <<>> when it is omitted.
TraceTargets(variant, segments) ==
    {<<>>} \cup
    IF variant = "HistoricalTraceAnalyzer"
    THEN {<<t>> : t \in {36000, 36300, 37200}}
    ELSE {<<k>> : k \in (0 - 1)..Len(segments)}

PerformHistoricalTrace ==
    /\ trace_analysis = <<>>
    /\ \E target \in TraceTargets(tr_variant, ht_task_segments),
          lookback \in {<<>>} \cup {<<l>> : l \in 0..(MaxTasks - 1)} :
          /\ target_task' = target
          /\ lookback_tasks' = lookback
          /\ sequence' = SequenceOf(tr_variant, ht_task_segments, target, lookback)
          /\ trace_analysis' =
                 <<perform_historical_trace(tr_variant, ht_task_segments, target, lookback)>>
    /\ UNCHANGED <<tr_variant, ht_task_segments, lineVars, scanVars, stopVars,
                   complaintVars, reportVars, detectVars, extractVars, aiVars>>

NextTrace == PerformHistoricalTrace

SpecTrace == InitTrace /\ [][NextTrace]_vars

(***************************************************************************)
(* SpecReport: one call of a reporting function on collections that hold   *)
(* little or nothing.  What the caller gets is [returned |-> value], or    *)
(* [raised |-> exception] when the function raises.  The report files are  *)
(* taken to be writable.                                                   *)
(***************************************************************************)
MaxReportTasks == 1
MaxReportPositions == 2

\* detect_stop_points(self, time_window_minutes: int = 10, ...)
DefaultStopWindow == 10
\* detect_stop_points(self, ..., movement_threshold: float = 0.01), in centimetres
DefaultStopThreshold == 1
\* analyze_complaint_scenario(self, complaint_time, time_window_minutes: int = 30)
DefaultComplaintWindow == 30
\* HistoricalTraceAnalyzer.trace_params['min_task_duration_minutes'], in seconds
MinTaskDuration == 300

Returned(value) == [returned |-> value]
Raises(exception) == [raised |-> exception]

\* a / b
Div(num, den) == IF den = 0 THEN ZeroDivisionError ELSE <<num, den>>

\* The loop of ComprehensiveRobotAnalyzer.detect_stop_points from index i on.
\* sum(x_changes) / len(x_changes) raises on a window of one point.
RECURSIVE StopLoop(_, _, _, _, _, _)
StopLoop(sorted, i, ws0, W, T, acc) ==
    IF i >= Len(sorted) THEN [stop_points |-> acc, raised |-> FALSE]
    ELSE LET ws == AdvanceWindow(ws0, i, sorted, W)
             w == SubSeq(sorted, ws + 1, i + 1)
         IN  IF i - ws >= MinWindowGap
             THEN IF Len(w) - 1 = 0 THEN [stop_points |-> acc, raised |-> TRUE]
                  ELSE StopLoop(sorted, i + 1, ws, W, T,
                                IF LowMovement(w, T)
                                THEN Append(acc, StopPoint(sorted[i + 1], W, w, i))
                                ELSE acc)
             ELSE StopLoop(sorted, i + 1, ws, W, T, acc)

\* ComprehensiveRobotAnalyzer.detect_stop_points as a function of
\* self.position_data and its two arguments.
detect_stop_points(positions, W, T) ==
    IF positions = <<>> THEN [stop_points |-> <<>>, raised |-> FALSE]
    ELSE StopLoop(SortedByTimestamp(positions), 0, 0, W, T, <<>>)

\* A faulty variant of HasTasks: the mean is taken of an empty list too.
HasTasksAlways(tasks) == TRUE

\* if self.task_segments:
HasTasks(tasks) == tasks # <<>>

CountOf(s, Test(_)) == Cardinality({i \in 1..Len(s) : Test(s[i])})

analyze_task_overview(tasks) ==
    [total_tasks |-> Len(tasks),
     total_duration_hours |-> <<SumSeq(durations(tasks)), 3600>>,
     avg_task_duration_minutes |->
         IF HasTasks(tasks)
         THEN Div(SumSeq(durations(tasks)), Len(tasks) * 60)
         ELSE <<0, 1>>,
     task_types |-> [ty \in {tasks[i].type : i \in 1..Len(tasks)} |->
                        CountOf(tasks, LAMBDA t : t.type = ty)],
     task_timeline |-> [i \in 1..Len(tasks) |->
                           [start |-> tasks[i].start_time,
                            end |-> tasks[i].end_time,
                            duration_minutes |-> <<tasks[i].duration, 60>>,
                            file |-> tasks[i].file]]]

IsPose(position) == position.type \in {"slam", "odom"}

analyze_localization_quality(positions) ==
    LET poses == SelectSeq(positions, IsPose) IN
    [i \in 1..Len(poses) |->
        [timestamp |-> poses[i].timestamp, score |-> 95, position |-> poses[i]]]

\* The keys of a defaultdict counted over the list, and their counts.
CountBy(s, Key(_)) ==
    [k \in {Key(s[i]) : i \in 1..Len(s)} |-> CountOf(s, LAMBDA e : Key(e) = k)]

\* analyze_anomalies; 'most_common' is given as the set of the pairs it
\* sorts, which is empty exactly when the list is.
analyze_anomalies(anoms) ==
    [by_type |-> CountBy(anoms, LAMBDA a : a.type),
     by_severity |-> CountBy(anoms, LAMBDA a : a.severity),
     by_file |-> CountBy(anoms, LAMBDA a : a.file),
     timeline |-> [i \in 1..Len(anoms) |->
                      [timestamp |-> anoms[i].timestamp, type |-> anoms[i].type,
                       severity |-> anoms[i].severity, file |-> anoms[i].file]],
     most_common |-> {<<ty, CountOf(anoms, LAMBDA a : a.type = ty)>> :
                         ty \in {anoms[i].type : i \in 1..Len(anoms)}}]

\* generate_recommendations: the advice given, by what it is about.
generate_recommendations(tasks, anoms) ==
    LET n(ty) == CountOf(anoms, LAMBDA a : a.type = ty)
        avg_duration == Div(SumSeq(durations(tasks)), Len(tasks))
        advice ==
            (IF n("sensor_offline") > 5 THEN <<"sensor_offline">> ELSE <<>>)
            \o (IF n("cpu_high") > 3 THEN <<"cpu_high">> ELSE <<>>)
            \o (IF n("localization_drop") > 2 THEN <<"localization_drop">> ELSE <<>>)
            \o (IF n("battery_low") > 0 THEN <<"battery_low">> ELSE <<>>)
            \o (IF HasTasks(tasks) /\ avg_duration # ZeroDivisionError
                   /\ avg_duration[1] > 3600 * avg_duration[2]
                THEN <<"long_tasks">> ELSE <<>>)
    IN  IF advice = <<>> THEN <<"no_problem">> ELSE advice

\* generate_recommendations raises when the mean divides by zero.
RecommendationsRaise(tasks) ==
    HasTasks(tasks) /\ Div(SumSeq(durations(tasks)), Len(tasks)) = ZeroDivisionError

\* get_task_context: the first task whose span holds target_time.
get_task_context(tasks, target_time) ==
    LET holds == {i \in 1..Len(tasks) :
                     /\ tasks[i].start_time <= target_time
                     /\ target_time <= tasks[i].end_time}
    IN  IF holds = {} THEN [in_task |-> FALSE]
        ELSE LET i == CHOOSE i \in holds : \A j \in holds : i <= j IN
             [task_type |-> tasks[i].type, task_start |-> tasks[i].start_time,
              task_duration |-> <<target_time - tasks[i].start_time, 60>>,
              in_task |-> TRUE]

\* ComprehensiveRobotAnalyzer.generate_complaint_recommendations
cra_generate_complaint_recommendations(stops_nearby, anomalies_nearby, task_context) ==
    (IF stops_nearby # <<>> THEN <<"stop_points">> ELSE <<>>)
    \o (IF anomalies_nearby # <<>>
           /\ CountOf(anomalies_nearby, LAMBDA a : a.severity = "high") > 0
        THEN <<"high_severity">> ELSE <<>>)
    \o (IF task_context.in_task THEN <<"in_task">> ELSE <<"not_in_task">>)

\* ComprehensiveRobotAnalyzer.analyze_complaint_scenario (its stop points
\* come from detect_stop_points with the default arguments).
cra_analyze_complaint_scenario(tasks, positions, anoms, c, w) ==
    LET stops == detect_stop_points(positions, DefaultStopWindow, DefaultStopThreshold)
        stops_nearby == NearbyOf(stops.stop_points, c, w)
        anomalies_nearby == NearbyOf(anoms, c, w)
        task_context == get_task_context(tasks, c)
    IN  IF stops.raised THEN Raises("ZeroDivisionError")
        ELSE Returned(
             [complaint_time |-> c, time_window_minutes |-> w,
              stop_points |-> stops_nearby,
              anomalies_nearby |-> anomalies_nearby,
              position_data |-> NearbyOf(positions, c, w),
              task_context |-> task_context,
              recommendations |->
                  cra_generate_complaint_recommendations(stops_nearby, anomalies_nearby,
                                                         task_context)])

\* What a call of perform_historical_trace gives its caller.
TraceOutcome(variant, segments, target) ==
    LET trace == perform_historical_trace(variant, segments, target, <<>>) IN
    IF "raised" \in DOMAIN trace THEN trace ELSE Returned(trace)

\* generate_comprehensive_report(complaint_time): files is self.log_files.
generate_comprehensive_report(files, tasks, positions, anoms, c) ==
    LET overview == analyze_task_overview(tasks)
        stops == detect_stop_points(positions, DefaultStopWindow, DefaultStopThreshold)
        trace == TraceOutcome("ComprehensiveRobotAnalyzer", tasks, <<>>)
        complaint == IF c # <<>>
                     THEN cra_analyze_complaint_scenario(tasks, positions, anoms, c[1],
                                                         DefaultComplaintWindow)
                     ELSE Returned(<<>>)
    IN  IF overview.avg_task_duration_minutes = ZeroDivisionError
        THEN Raises("ZeroDivisionError")
        ELSE IF stops.raised THEN Raises("ZeroDivisionError")
        ELSE IF "raised" \in DOMAIN trace THEN trace
        ELSE IF RecommendationsRaise(tasks) THEN Raises("ZeroDivisionError")
        ELSE IF "raised" \in DOMAIN complaint THEN complaint
        ELSE Returned(
             [analysis_summary |->
                  [total_log_files |-> Len(files),
                   total_task_segments |-> Len(tasks),
                   total_position_records |-> Len(positions),
                   total_anomalies |-> Len(anoms)],
              task_overview |-> overview,
              localization_analysis |-> analyze_localization_quality(positions),
              anomaly_summary |-> analyze_anomalies(anoms),
              stop_point_analysis |-> stops.stop_points,
              historical_trace_analysis |-> trace.returned,
              complaint_analysis |-> complaint.returned,
              recommendations |-> generate_recommendations(tasks, anoms)])

\* dict.get(key, default)
Get(d, key, default) == IF key \in DOMAIN d THEN d[key] ELSE default

\* HistoricalTraceAnalyzer.generate_trace_report(target_task_time).
generate_trace_report(files, tasks, target) ==
    LET outcome == TraceOutcome("HistoricalTraceAnalyzer", tasks, target) IN
    IF "raised" \in DOMAIN outcome THEN outcome
    ELSE LET analysis == outcome.returned
             cross == Get(analysis, "cross_task_analysis",
                          [performance_degradation |-> FALSE,
                           error_escalation |-> FALSE])
         IN  Returned(
             [report_metadata |->
                  [log_files_analyzed |-> Len(files), tasks_analyzed |-> Len(tasks)],
              trace_parameters |->
                  [lookback_tasks |-> Get(analysis, "lookback_tasks", DefaultLookback),
                   target_task_time |-> Get(analysis, "target_task_time", <<>>),
                   target_task_index |-> Get(analysis, "target_task_index", 0 - 1)],
              analysis_results |-> analysis,
              summary |->
                  [task_sequences_count |->
                       Len(Get(analysis, "task_sequences", <<>>)),
                   root_cause_indicators_count |->
                       Len(Get(analysis, "root_cause_indicators", <<>>)),
                   performance_degradation |-> cross.performance_degradation,
                   error_escalation |-> cross.error_escalation]])

\* A task segment as analyze_log_file closes it (the anomalies of an event
\* are given by whether the list holds any).
ReportTask(t, d) ==
    [start_time |-> t, end_time |-> t + d, duration |-> d, type |-> "task",
     file |-> "a.log", status |-> "success", events |-> <<TraceEvent("general")>>]

ReportTasks == {ReportTask(t, d) : t \in {36000, 36600}, d \in {0, 300, 600}}

\* A faulty variant of LongEnough: every closed task is kept.
LongEnoughAlways(task) == TRUE

\* HistoricalTraceAnalyzer.extract_task_segments keeps the tasks that last
\* min_task_duration_minutes or more.
LongEnough(task) == task.duration >= MinTaskDuration

\* Every analyzer has scanned the same directory of one file.
InitReport ==
    /\ log_dir = {"a.log"} /\ log_files = <<"a.log">>
    /\ task_segments \in ListsUpTo(MaxReportTasks, ReportTasks)
    /\ position_data \in PositionLists(MaxReportPositions, {<<0, 0>>, <<1, 0>>})
    /\ anomalies = <<>>
    /\ pc = "done" /\ file_idx = 1 /\ current_task = <<>>
    /\ task_start_time = NoTimestamp /\ scanned = <<>> /\ scan_base = 0
    /\ lines_read = 0 /\ open_at_eof = {} /\ RunIdle
    /\ tr_variant = "none" /\ ht_task_segments = SelectSeq(task_segments, LongEnough)
    /\ target_task = <<>> /\ lookback_tasks = <<>> /\ sequence = <<>>
    /\ trace_analysis = <<>>
    /\ stop_events \in {<<>>, <<StopEvent(36000, "movement")>>}
    /\ anomaly_events = <<>> /\ ca_position_data = <<>>
    /\ complaint_time = NoTimestamp /\ time_window_minutes = 0
    /\ complaint_analysis = <<>>
    /\ StopIdle /\ LineIdle /\ ReportIdle /\ DetectIdle /\ ExtractIdle
    /\ AiIdle

ReportInputsKept ==
    UNCHANGED <<lineVars, scanVars, stopVars, complaintVars, traceVars, detectVars,
                extractVars, aiVars>>

ComplaintTimes == {36000, 36060}

CallPerformHistoricalTrace ==
    /\ report_op = "none"
    /\ \E variant \in {"HistoricalTraceAnalyzer", "ComprehensiveRobotAnalyzer"} :
          /\ report_op' = variant \o ".perform_historical_trace"
          /\ report_arg' = <<>>
          /\ report' = TraceOutcome(variant,
                                    IF variant = "HistoricalTraceAnalyzer"
                                    THEN ht_task_segments ELSE task_segments, <<>>)
    /\ ReportInputsKept

CallDetectStopPoints ==
    /\ report_op = "none"
    /\ report_op' = "detect_stop_points"
    /\ report_arg' = <<>>
    /\ report' =
          LET stops == detect_stop_points(position_data, DefaultStopWindow,
                                          DefaultStopThreshold)
          IN  IF stops.raised THEN Raises("ZeroDivisionError")
              ELSE Returned(stops.stop_points)
    /\ ReportInputsKept

CallGenerateComprehensiveReport ==
    /\ report_op = "none"
    /\ \E c \in {<<>>} \cup {<<t>> : t \in ComplaintTimes} :
          /\ report_op' = "generate_comprehensive_report"
          /\ report_arg' = c
          /\ report' = generate_comprehensive_report(log_files, task_segments,
                                                     position_data, anomalies, c)
    /\ ReportInputsKept

CallGenerateTraceReport ==
    /\ report_op = "none"
    /\ \E target \in {<<>>} \cup {<<t>> : t \in ComplaintTimes} :
          /\ report_op' = "generate_trace_report"
          /\ report_arg' = target
          /\ report' = generate_trace_report(log_files, ht_task_segments, target)
    /\ ReportInputsKept

\* analyze_complaint_scenario of ComprehensiveRobotAnalyzer and of
\* ComplaintAnalyzer, the window left at its default.
CallAnalyzeComplaintScenario ==
    /\ report_op = "none"
    /\ \E c \in ComplaintTimes :
          /\ report_arg' = <<c>>
          /\ \/ /\ report_op' = "ComprehensiveRobotAnalyzer.analyze_complaint_scenario"
                /\ report' = cra_analyze_complaint_scenario(task_segments, position_data,
                                                            anomalies, c,
                                                            DefaultComplaintWindow)
             \/ /\ report_op' = "ComplaintAnalyzer.analyze_complaint_scenario"
                /\ report' = Returned(analyze_complaint_scenario(c, DefaultComplaintWindow))
    /\ ReportInputsKept

NextReport ==
    \/ CallPerformHistoricalTrace
    \/ CallDetectStopPoints
    \/ CallGenerateComprehensiveReport
    \/ CallGenerateTraceReport
    \/ CallAnalyzeComplaintScenario

SpecReport == InitReport /\ [][NextReport]_vars

(***************************************************************************)
(* SpecEntry: one call of an entry point that takes a complaint time.  The *)
(* complaint time is a string (a token as above, or the empty string), or  *)
(* <<>> when the caller gives none.  What the caller gets is a record:     *)
(*   message      what is reported ("time_format": the format error)       *)
(*   correlation  the complaint analysis delivered (<<>>: none was run)    *)
(*   others       the results of the other analyses delivered              *)
(***************************************************************************)
EmptyString == Tok("empty", 0, 0, 0, 0, 0)

ComplaintTimeStrings ==
    {Tok("std", mo, 10, 5, 0, 0) : mo \in {1, 13}}
    \cup {Tok("stdms", 1, 10, 5, 0, 0), Tok("epoch", 0, 0, 0, 36300000, 13), EmptyString}

\* datetime.strptime(complaint_time_str, "%Y-%m-%d %H:%M:%S") on the whole
\* string: raises unless the string is the format and nothing else.
strptime_whole(s) == IF s.k = "std" THEN strptime(s) ELSE ConvError

\* if complaint_time_str: (None and '' are false)
Truthy(arg) == arg # <<>> /\ arg[1] # EmptyString

Outcome(message, correlation, others) ==
    [message |-> message, correlation |-> correlation, others |-> others]

\* ComplaintAnalyzer.generate_complaint_report(complaint_time, output_file)
generate_complaint_report(files, c) ==
    LET analysis == analyze_complaint_scenario(c, DefaultComplaintWindow) IN
    [report_metadata |-> [log_files_analyzed |-> Len(files)],
     complaint_details |-> [complaint_time |-> c],
     analysis_results |-> analysis,
     summary |-> [stop_events_count |-> Len(analysis.stop_events_nearby),
                  anomalies_count |-> Len(analysis.anomalies_nearby),
                  root_causes_count |-> Len(analysis.root_cause_analysis),
                  movement_pattern |-> analysis.movement_analysis.movement_trend]]

\* api_json_service.complaint_analysis_json: generate_complaint_report is
\* called without its output_file argument and raises TypeError.
complaint_analysis_json(arg) ==
    IF ~Truthy(arg) THEN Outcome("missing_parameter", <<>>, <<>>)
    ELSE IF strptime_whole(arg[1]) = ConvError THEN Outcome("time_format", <<>>, <<>>)
    ELSE Outcome("analysis_failed", <<>>, <<>>)

\* backend/server.py analyze_with_comprehensive_analyzer: the complaint step
\* runs inside try / except Exception, which prints a warning on the server.
analyze_with_comprehensive_analyzer(arg) ==
    LET comprehensive_report ==
            generate_comprehensive_report(log_files, task_segments, position_data,
                                          anomalies, <<>>)
        complaint_result ==
            IF Truthy(arg) /\ strptime_whole(arg[1]) # ConvError
            THEN <<generate_complaint_report(log_files, strptime_whole(arg[1]))>>
            ELSE <<>>
        historical_report == generate_trace_report(log_files, ht_task_segments, <<>>)
    IN  IF "raised" \in DOMAIN comprehensive_report \/ "raised" \in DOMAIN historical_report
        THEN Outcome("analysis_failed", <<>>, <<>>)
        ELSE Outcome("success", complaint_result,
                     <<comprehensive_report.returned, historical_report.returned>>)

\* comprehensive_robot_analyzer.main: a complaint time that does not parse
\* ends main before the report is generated.
comprehensive_main(arg) ==
    IF Truthy(arg) /\ strptime_whole(arg[1]) = ConvError
    THEN Outcome("time_format", <<>>, <<>>)
    ELSE LET c == IF Truthy(arg) THEN <<strptime_whole(arg[1])>> ELSE <<>>
             rep == generate_comprehensive_report(log_files, task_segments,
                                                  position_data, anomalies, c)
         IN  IF "raised" \in DOMAIN rep THEN Outcome("traceback", <<>>, <<>>)
             ELSE Outcome("summary",
                          IF c # <<>> THEN <<rep.returned.complaint_analysis>>
                          ELSE <<>>,
                          <<[rep.returned EXCEPT !.complaint_analysis = <<>>]>>)

\* complaint_analyzer.main: --complaint-time is required.
complaint_main(arg) ==
    IF arg = <<>> THEN Outcome("usage", <<>>, <<>>)
    ELSE IF strptime_whole(arg[1]) = ConvError THEN Outcome("time_format", <<>>, <<>>)
    ELSE Outcome("summary",
                 <<generate_complaint_report(log_files, strptime_whole(arg[1]))>>, <<>>)

EntryOutcome(op, arg) ==
    CASE op = "complaint_analysis_json" -> complaint_analysis_json(arg)
      [] op = "analyze_with_comprehensive_analyzer" ->
            analyze_with_comprehensive_analyzer(arg)
      [] op = "comprehensive_robot_analyzer.main" -> comprehensive_main(arg)
      [] op = "complaint_analyzer.main" -> complaint_main(arg)

ComplaintTimeArgs == {<<>>} \cup {<<s>> : s \in ComplaintTimeStrings}

CallEntry(op) ==
    /\ report_op = "none"
    /\ \E arg \in ComplaintTimeArgs :
          /\ report_op' = op
          /\ report_arg' = arg
          /\ report' = EntryOutcome(op, arg)
    /\ ReportInputsKept

CallComplaintAnalysisJson == CallEntry("complaint_analysis_json")
CallAnalyzeWithComprehensiveAnalyzer == CallEntry("analyze_with_comprehensive_analyzer")
CallComprehensiveMain == CallEntry("comprehensive_robot_analyzer.main")
CallComplaintMain == CallEntry("complaint_analyzer.main")

NextEntry ==
    \/ CallComplaintAnalysisJson
    \/ CallAnalyzeWithComprehensiveAnalyzer
    \/ CallComprehensiveMain
    \/ CallComplaintMain

SpecEntry == InitReport /\ [][NextEntry]_vars

(***************************************************************************)
(* SpecHealth: one call of api_json_service.system_health_json on an       *)
(* analyzer whose scan found anomalies.                                    *)
(***************************************************************************)
\* The anomaly dicts a scan leaves in self.anomalies.
HealthAnomalies ==
    {[timestamp |-> 36000, type |-> ts[1], severity |-> ts[2], file |-> "a.log"] :
        ts \in {<<"sensor_offline", "high">>, <<"sensor_offline", "medium">>,
                <<"cpu_high", "high">>, <<"unknown", "low">>}}

InitHealth ==
    /\ log_dir = {"a.log"} /\ log_files = <<"a.log">>
    /\ task_segments \in ListsUpTo(MaxReportTasks, ReportTasks)
    /\ position_data = <<>>
    /\ anomalies \in ListsUpTo(MaxEvents, HealthAnomalies)
    /\ pc = "done" /\ file_idx = 1 /\ current_task = <<>>
    /\ task_start_time = NoTimestamp /\ scanned = <<>> /\ scan_base = 0
    /\ lines_read = 0 /\ open_at_eof = {} /\ RunIdle
    /\ StopIdle /\ LineIdle /\ RestIdle

\* len([a for a in anomalies if a.get("severity") == severity])
SeverityCount(anoms, severity) == CountOf(anoms, LAMBDA a : a.severity = severity)

\* The status bands of the score.
health_status(health_score) ==
    IF health_score >= 90 THEN "excellent"
    ELSE IF health_score >= 70 THEN "good"
    ELSE IF health_score >= 50 THEN "fair"
    ELSE IF health_score >= 30 THEN "poor"
    ELSE "critical"

\* api_json_service.generate_recommendations
health_recommendations(health_score, critical_count, high_count) ==
    (IF critical_count > 0 THEN <<"critical_issues">> ELSE <<>>)
    \o (IF high_count > 0 THEN <<"high_issues">> ELSE <<>>)
    \o (IF health_score < 50 THEN <<"diagnose">>
        ELSE IF health_score < 70 THEN <<"improve">>
        ELSE <<"normal">>)

\* anomalies = report.get("anomalies", []): the report has no such key.
ReportAnomalies(rep) == Get(rep, "anomalies", <<>>)

\* The dict system_health_json builds from the report it was given.
HealthOfReport(rep) ==
    IF "raised" \in DOMAIN rep THEN [status |-> "error"]
    ELSE LET found == ReportAnomalies(rep.returned)
             critical_count == SeverityCount(found, "critical")
             high_count == SeverityCount(found, "high")
             medium_count == SeverityCount(found, "medium")
             health_score ==
                 Max(0, 100 - critical_count * 30 - high_count * 15 - medium_count * 5)
         IN  [status |-> "success",
              health_score |-> health_score,
              health_status |-> health_status(health_score),
              anomaly_breakdown |->
                  [critical |-> critical_count, high |-> high_count,
                   medium |-> medium_count, low |-> SeverityCount(found, "low"),
                   total |-> Len(found)],
              key_issues |-> [i \in 1..Min(Len(found), 10) |->
                                 [severity |-> found[i].severity,
                                  type |-> found[i].type, count |-> 1]],
              recommendations |->
                  health_recommendations(health_score, critical_count, high_count)]

\* report = analyzer.generate_comprehensive_report(), built once, and the
\* dict made from it.
system_health_json(files, tasks, positions, anoms) ==
    CHOOSE out \in {HealthOfReport(rep) :
                       rep \in {generate_comprehensive_report(files, tasks, positions,
                                                              anoms, <<>>)}} : TRUE

CallSystemHealthJson ==
    /\ report_op = "none"
    /\ report_op' = "system_health_json"
    /\ report_arg' = <<>>
    /\ report' = system_health_json(log_files, task_segments, position_data, anomalies)
    /\ ReportInputsKept

NextHealth == CallSystemHealthJson

SpecHealth == InitHealth /\ [][NextHealth]_vars

(***************************************************************************)
(* SpecDetect: one ComplaintAnalyzer run, analyze_all_logs followed by     *)
(* analyze_complaint_scenario.  A line is what parse_timestamp,            *)
(* extract_position_data and the stop_reason_patterns find in it.          *)
(***************************************************************************)
MaxBlocks == 4      \* blocks of lines in the files of one run

\* if len(position_buffer) > 100: position_buffer.pop(0)
BufferCap == 100
\* if len(position_buffer) < 10: return
MinBufferLen == 10
\* if len(window_positions) < 5: return
MinWindowLen == 5
\* if time_diff < 300: return True
DuplicateSeconds == 300

\* A line: timestamp is NoTimestamp when parse_timestamp returns None,
\* position holds the (x, y) extract_position_data would return, reasons
\* the reason types of the stop_reason_patterns that match, one entry for
\* each matching pattern, in the order of the dict.
DetectLine(t, position, reasons) ==
    [timestamp |-> t, position |-> position, reasons |-> reasons]

\* Blocks of lines: five poses of a standing robot, five poses of a robot
\* going to and fro, a line matching one or two stop_reason_patterns, a
\* line without a timestamp; "eof" ends a file.
DetectInstants == {36000, 36200, 36300}

BlockLines(block) ==
    CASE block.kind = "still" ->
            [k \in 1..5 |-> DetectLine(block.t, <<<<0, 0>>>>, <<>>)]
      [] block.kind = "moving" ->
            [k \in 1..5 |-> DetectLine(block.t,
                                       <<IF k % 2 = 0 THEN <<2, 0>> ELSE <<0, 0>>>>,
                                       <<>>)]
      [] block.kind = "reason" ->
            <<DetectLine(block.t, <<>>, <<"battery_low">>)>>
      [] block.kind = "reasons" ->
            <<DetectLine(block.t, <<>>, <<"obstacle_blocked", "battery_low">>)>>
      [] block.kind = "untimed" ->
            <<DetectLine(NoTimestamp, <<<<0, 0>>>>, <<"battery_low">>)>>
      [] OTHER -> <<>>

DetectBlocks ==
    {[kind |-> "still", t |-> t] : t \in DetectInstants}
    \cup {[kind |-> "reason", t |-> 36000], [kind |-> "reason", t |-> 36300],
          [kind |-> "moving", t |-> 36000], [kind |-> "reasons", t |-> 36200],
          [kind |-> "untimed", t |-> 0], [kind |-> "eof", t |-> 0]}

\* The files a list of blocks makes.
RECURSIVE FilesOf(_)
FilesOf(blocks) ==
    IF blocks = <<>> THEN <<<<>>>>
    ELSE LET files == FilesOf(SubSeq(blocks, 1, Len(blocks) - 1)) IN
         IF Last(blocks).kind = "eof" THEN Append(files, <<>>)
         ELSE [files EXCEPT ![Len(files)] = @ \o BlockLines(Last(blocks))]

\* A faulty variant of is_duplicate_stop_event: only movement_analysis
\* events count.
is_duplicate_movement_only(events, timestamp) ==
    \E k \in 1..Len(events) :
        /\ events[k].type = "movement_analysis"
        /\ total_seconds_abs(events[k].timestamp, timestamp) < DuplicateSeconds

\* for event in self.stop_events: if time_diff < 300: return True
is_duplicate_stop_event(events, timestamp) ==
    \E k \in 1..Len(events) :
        total_seconds_abs(events[k].timestamp, timestamp) < DuplicateSeconds

\* analyze_movement_pattern: self.stop_events after the call.
analyze_movement_pattern(events, buffer, current_time) ==
    IF Len(buffer) < MinBufferLen THEN events
    ELSE LET window_positions ==
                 SelectSeq(buffer,
                           LAMBDA p : p.timestamp >= current_time - stop_window_minutes * 60)
         IN  IF Len(window_positions) < MinWindowLen THEN events
             ELSE IF /\ LowMovement(window_positions, movement_threshold)
                     /\ ~is_duplicate_stop_event(events, current_time)
                  THEN Append(events, StopEvent(current_time, "movement"))
                  ELSE events

\* A faulty variant of detect_stop_related_logs: the events of the line
\* replace the list.
detect_stop_related_logs_replacing(events, line) ==
    [k \in 1..Len(line.reasons) |-> StopEvent(line.timestamp, line.reasons[k])]

\* detect_stop_related_logs: one log_analysis event for each matching pattern.
detect_stop_related_logs(events, line) ==
    events \o [k \in 1..Len(line.reasons) |-> StopEvent(line.timestamp, line.reasons[k])]

\* position_buffer.append(position); pop(0) past the cap.
Buffered(buffer, position) ==
    LET longer == Append(buffer, position) IN
    IF Len(longer) > BufferCap THEN Tail(longer) ELSE longer

InitDetect ==
    /\ \E blocks \in ListsUpTo(MaxBlocks, DetectBlocks) : ca_log_files = FilesOf(blocks)
    /\ ca_file_idx = 1 /\ ca_line_idx = 0 /\ position_buffer = <<>> /\ ca_pc = "scan"
    /\ ComplaintIdle
    /\ CoreIdle /\ TraceIdle /\ ReportIdle /\ ExtractIdle /\ AiIdle

\* One iteration of the loop of detect_stop_events over the lines of a file.
DetectReadLine ==
    /\ ca_pc = "scan" /\ ca_line_idx < Len(ca_log_files[ca_file_idx])
    /\ LET line == ca_log_files[ca_file_idx][ca_line_idx + 1]
           position == [timestamp |-> line.timestamp, x |-> line.position[1][1],
                        y |-> line.position[1][2], type |-> "slam_pose"]
           buffer == IF line.position # <<>>
                     THEN Buffered(position_buffer, position) ELSE position_buffer
           moved == IF line.position # <<>>
                    THEN analyze_movement_pattern(stop_events, buffer, line.timestamp)
                    ELSE stop_events
       IN  IF line.timestamp = NoTimestamp
           THEN UNCHANGED <<position_buffer, stop_events>>
           ELSE /\ position_buffer' = buffer
                /\ stop_events' = detect_stop_related_logs(moved, line)
    /\ ca_line_idx' = ca_line_idx + 1
    /\ UNCHANGED <<ca_log_files, ca_file_idx, ca_pc, anomaly_events, ca_position_data,
                   complaint_time, time_window_minutes, complaint_analysis,
                   lineVars, scanVars, stopVars, traceVars, reportVars, extractVars,
                   aiVars>>

\* The file is read; detect_stop_events is called on the next one with a
\* new position_buffer, or analyze_all_logs returns.
DetectNextFile ==
    /\ ca_pc = "scan" /\ ca_line_idx = Len(ca_log_files[ca_file_idx])
    /\ IF ca_file_idx < Len(ca_log_files)
       THEN /\ ca_file_idx' = ca_file_idx + 1 /\ ca_line_idx' = 0
            /\ position_buffer' = <<>> /\ UNCHANGED ca_pc
       ELSE /\ ca_pc' = "scanned"
            /\ UNCHANGED <<ca_file_idx, ca_line_idx, position_buffer>>
    /\ UNCHANGED <<ca_log_files, complaintVars, lineVars, scanVars, stopVars,
                   traceVars, reportVars, extractVars, aiVars>>

\* analyze_complaint_scenario(complaint_time) on the collections of the run.
DetectAnalyzeComplaintScenario ==
    /\ ca_pc = "scanned"
    /\ \E c \in DetectInstants :
          /\ complaint_time' = c
          /\ time_window_minutes' = DefaultComplaintWindow
          /\ complaint_analysis' = <<analyze_complaint_scenario(c, DefaultComplaintWindow)>>
    /\ ca_pc' = "analyzed"
    /\ UNCHANGED <<stop_events, anomaly_events, ca_position_data, ca_log_files,
                   ca_file_idx, ca_line_idx, position_buffer,
                   lineVars, scanVars, stopVars, traceVars, reportVars, extractVars,
                   aiVars>>

NextDetect == DetectReadLine \/ DetectNextFile \/ DetectAnalyzeComplaintScenario

SpecDetect == InitDetect /\ [][NextDetect]_vars

(***************************************************************************)
(* SpecExtract: HistoricalTraceAnalyzer.extract_task_segments on each file *)
(* of a run.  A line is its timestamp, the groups of task_status_patterns  *)
(* that match it and the event type classify_event_type gives it.          *)
(***************************************************************************)
MaxExtractLines == 3    \* lines (and ends of file) in the files of one run

ExtractLine(t, start, end, success, failure) ==
    [timestamp |-> t, start |-> start, end |-> end, success |-> success,
     failure |-> failure, type |-> IF failure THEN "error" ELSE "general"]

ExtractInstants == {36000, 36100, 36300}

\* The lines of the files: a start line, an end line matching neither, one
\* or both of the status groups, a line matching a start and an end pattern
\* ('navigation no task'), a line matching the status groups only, a line
\* without a timestamp.
ExtractLines ==
    {ExtractLine(t, f[1], f[2], f[3], f[4]) :
        t \in ExtractInstants,
        f \in {<<TRUE, FALSE, FALSE, FALSE>>, <<FALSE, TRUE, FALSE, FALSE>>,
               <<FALSE, TRUE, TRUE, FALSE>>, <<FALSE, TRUE, FALSE, TRUE>>,
               <<FALSE, TRUE, TRUE, TRUE>>, <<TRUE, TRUE, FALSE, FALSE>>,
               <<FALSE, FALSE, TRUE, TRUE>>}}
    \cup {ExtractLine(NoTimestamp, TRUE, TRUE, TRUE, FALSE)}

\* The end of a file, among the lines of a run.
FileEnd == [eof |-> TRUE]

RECURSIVE ExtractFilesOf(_)
ExtractFilesOf(items) ==
    IF items = <<>> THEN <<<<>>>>
    ELSE LET files == ExtractFilesOf(SubSeq(items, 1, Len(items) - 1)) IN
         IF Last(items) = FileEnd THEN Append(files, <<>>)
         ELSE [files EXCEPT ![Len(files)] = Append(@, Last(items))]

\* A faulty variant of EndStatus: a success pattern wins over a failure one.
EndStatusSuccessWins(status, line) ==
    IF line.success THEN "success" ELSE IF line.failure THEN "failure" ELSE status

\* The two status loops run on a task_end line: 'success' on a
\* task_success match, then 'failure' on a task_failure match.
EndStatus(status, line) ==
    LET after_success == IF line.success THEN "success" ELSE status
    IN  IF line.failure THEN "failure" ELSE after_success

\* The task a task_start line opens when none is open.  task_start_time is
\* its start_time.
OpenedSegment(line, file) ==
    [start_time |-> line.timestamp, file |-> file, events |-> <<>>,
     status |-> "running"]

\* The task closed by a task_end line.  end_line is history: the file and
\* the line that closed it.
ClosedSegment(task, line, file, idx) ==
    [start_time |-> task.start_time, file |-> task.file, events |-> task.events,
     status |-> EndStatus(task.status, line),
     end_time |-> line.timestamp,
     duration |-> line.timestamp - task.start_time,
     end_line |-> <<file, idx>>]

InitExtract ==
    /\ \E items \in ListsUpTo(MaxExtractLines, ExtractLines \cup {FileEnd}) :
          ht_log_files = ExtractFilesOf(items)
    /\ ht_file_idx = 1 /\ ht_line_idx = 0 /\ ht_current_task = <<>>
    /\ ht_closed = 0 /\ ht_pc = "scan"
    /\ tr_variant = "none" /\ ht_task_segments = <<>> /\ target_task = <<>>
    /\ lookback_tasks = <<>> /\ sequence = <<>> /\ trace_analysis = <<>>
    /\ CoreIdle /\ ComplaintIdle /\ ReportIdle /\ DetectIdle /\ AiIdle

\* One iteration of the loop of extract_task_segments over the lines.
ExtractReadLine ==
    /\ ht_pc = "scan" /\ ht_line_idx < Len(ht_log_files[ht_file_idx])
    /\ LET line == ht_log_files[ht_file_idx][ht_line_idx + 1]
           started == IF line.start /\ ht_current_task = <<>>
                      THEN <<OpenedSegment(line, ht_file_idx)>> ELSE ht_current_task
           closes == line.end /\ started # <<>>
           closed == ClosedSegment(started[1], line, ht_file_idx, ht_line_idx + 1)
           event == [timestamp |-> line.timestamp, type |-> line.type]
       IN  IF line.timestamp = NoTimestamp
           THEN UNCHANGED <<ht_current_task, ht_task_segments, ht_closed>>
           ELSE IF closes
           THEN /\ ht_task_segments' =
                      IF LongEnough(closed) THEN Append(ht_task_segments, closed)
                      ELSE ht_task_segments
                /\ ht_current_task' = <<>>
                /\ ht_closed' = ht_closed + 1
           ELSE /\ ht_current_task' =
                      IF started # <<>>
                      THEN <<[started[1] EXCEPT !.events = Append(@, event)]>>
                      ELSE started
                /\ UNCHANGED <<ht_task_segments, ht_closed>>
    /\ ht_line_idx' = ht_line_idx + 1
    /\ UNCHANGED <<ht_log_files, ht_file_idx, ht_pc, tr_variant, target_task,
                   lookback_tasks, sequence, trace_analysis,
                   lineVars, scanVars, stopVars, complaintVars, reportVars, detectVars,
                   aiVars>>

\* The file is read; extract_task_segments is called on the next one, with
\* no task open, or the scan ends.
ExtractNextFile ==
    /\ ht_pc = "scan" /\ ht_line_idx = Len(ht_log_files[ht_file_idx])
    /\ IF ht_file_idx < Len(ht_log_files)
       THEN /\ ht_file_idx' = ht_file_idx + 1 /\ ht_line_idx' = 0
            /\ ht_current_task' = <<>> /\ UNCHANGED ht_pc
       ELSE /\ ht_pc' = "scanned"
            /\ UNCHANGED <<ht_file_idx, ht_line_idx, ht_current_task>>
    /\ UNCHANGED <<ht_log_files, ht_closed, traceVars,
                   lineVars, scanVars, stopVars, complaintVars, reportVars, detectVars,
                   aiVars>>

NextExtract == ExtractReadLine \/ ExtractNextFile

SpecExtract == InitExtract /\ [][NextExtract]_vars

(***************************************************************************)
(* SpecAi: one call of call_ai_model(prompt, retries, backoff).  A request *)
(* is requests.post with a timeout, followed by the reading of the reply.  *)
(***************************************************************************)
MaxRetries == 3     \* the largest value of the argument retries

\* What a request and the reading of its reply come to:
\*   ok                a reply with a first choice
\*   no_choice         a reply without choices
\*   connection_error  requests.post raises a RequestException
\*   http_error        raise_for_status raises a RequestException
\*   not_a_dict        the reply is no dict: data.get raises AttributeError
\*   other_exception   any other exception inside the try block
RequestExceptions == {"connection_error", "http_error"}
OtherExceptions == {"not_a_dict", "other_exception"}
RequestOutcomes == {"ok", "no_choice"} \cup RequestExceptions \cup OtherExceptions

\* The values of the argument backoff, in seconds.
Backoffs == {0 - 1, 0, 2}

\* The function falls off its end: None.
PyNone == [none |-> TRUE]

\* 2 ** n
RECURSIVE Pow2(_)
Pow2(n) == IF n = 0 THEN 1 ELSE 2 * Pow2(n - 1)

\* sleep_time = backoff * (2 ** (attempt - 1))
sleep_time(backoff, attempt) == backoff * Pow2(attempt - 1)

InitAi ==
    /\ ai_key \in BOOLEAN
    /\ ai_retries \in 0..MaxRetries
    /\ ai_backoff \in Backoffs
    /\ ai_attempt = 0 /\ ai_outcomes = <<>> /\ ai_sleeps = <<>>
    /\ ai_result = <<>> /\ ai_pc = "start"
    /\ CoreIdle /\ ComplaintIdle /\ TraceIdle /\ ReportIdle /\ DetectIdle /\ ExtractIdle

AiKept ==
    UNCHANGED <<ai_key, ai_retries, ai_backoff, lineVars, scanVars, stopVars,
                complaintVars, traceVars, reportVars, detectVars, extractVars>>

\* if not API_KEY: return {"error": ...}
AiNoKey ==
    /\ ai_pc = "start" /\ ~ai_key
    /\ ai_result' = <<Returned([error |-> "no API_KEY"])>>
    /\ ai_pc' = "done"
    /\ UNCHANGED <<ai_attempt, ai_outcomes, ai_sleeps>>
    /\ AiKept

\* headers, payload, url; the loop starts at attempt 1.
AiEnterLoop ==
    /\ ai_pc = "start" /\ ai_key
    /\ ai_attempt' = 1
    /\ ai_pc' = "loop"
    /\ UNCHANGED <<ai_outcomes, ai_sleeps, ai_result>>
    /\ AiKept

\* range(1, retries + 1) is used up: the function ends without a return.
AiLoopEnds ==
    /\ ai_pc = "loop" /\ ai_attempt > ai_retries
    /\ ai_result' = <<Returned(PyNone)>>
    /\ ai_pc' = "done"
    /\ UNCHANGED <<ai_attempt, ai_outcomes, ai_sleeps>>
    /\ AiKept

\* The request succeeds: return {"raw": ..., "attempt": attempt}, or the
\* format error when the reply has no choice.
AiReply ==
    /\ ai_pc = "loop" /\ ai_attempt <= ai_retries
    /\ \E outcome \in {"ok", "no_choice"} :
          /\ ai_outcomes' = Append(ai_outcomes, outcome)
          /\ ai_result' =
                IF outcome = "ok"
                THEN <<Returned([raw |-> "content", attempt |-> ai_attempt])>>
                ELSE <<Returned([error |-> "bad format", raw |-> "data"])>>
    /\ ai_pc' = "done"
    /\ UNCHANGED <<ai_attempt, ai_sleeps>>
    /\ AiKept

\* except requests.exceptions.RequestException: sleep and continue while
\* attempt < retries, else return {"error": last_err}.  time.sleep raises
\* ValueError on a negative argument, inside the handler.
AiRequestException ==
    /\ ai_pc = "loop" /\ ai_attempt <= ai_retries
    /\ \E outcome \in RequestExceptions :
          ai_outcomes' = Append(ai_outcomes, outcome)
    /\ IF ai_attempt < ai_retries
       THEN IF sleep_time(ai_backoff, ai_attempt) < 0
            THEN /\ ai_result' = <<Raises("ValueError")>>
                 /\ ai_pc' = "done"
                 /\ UNCHANGED <<ai_attempt, ai_sleeps>>
            ELSE /\ ai_sleeps' = Append(ai_sleeps, sleep_time(ai_backoff, ai_attempt))
                 /\ ai_attempt' = ai_attempt + 1
                 /\ UNCHANGED <<ai_result, ai_pc>>
       ELSE /\ ai_result' = <<Returned([error |-> "last_err"])>>
            /\ ai_pc' = "done"
            /\ UNCHANGED <<ai_attempt, ai_sleeps>>
    /\ AiKept

\* except Exception as e: return {"error": str(e)}
AiOtherException ==
    /\ ai_pc = "loop" /\ ai_attempt <= ai_retries
    /\ \E outcome \in OtherExceptions :
          ai_outcomes' = Append(ai_outcomes, outcome)
    /\ ai_result' = <<Returned([error |-> "str(e)"])>>
    /\ ai_pc' = "done"
    /\ UNCHANGED <<ai_attempt, ai_sleeps>>
    /\ AiKept

NextAi ==
    AiNoKey \/ AiEnterLoop \/ AiLoopEnds \/ AiReply \/ AiRequestException
    \/ AiOtherException

\* Every request has a timeout and every wait is finite, so a call that
\* has not returned goes on.
SpecAi == InitAi /\ [][NextAi]_vars /\ WF_vars(NextAi)

(***************************************************************************)
(* Properties of the scan (checked under Spec).                            *)
(***************************************************************************)
\* The lines of the current file in which parse_timestamp finds a timestamp.
TsLines == SelectSeq(scanned, LAMBDA l : parse_timestamp(l) # NoTimestamp)

PhaseAt(s, i) == detect_task_phase(s[i])
TimeAt(s, i) == parse_timestamp(s[i])

\* The task_end lines that end a complete pair: a task_start line lies
\* before the line with no task_end line in between.
ClosingEnds(s) ==
    {j \in 1..Len(s) :
        /\ PhaseAt(s, j) = "task_end"
        /\ \E i \in 1..(j-1) :
              /\ PhaseAt(s, i) = "task_start"
              /\ \A k \in (i+1)..(j-1) : PhaseAt(s, k) # "task_end"}

\* The first task_start line after the last task_end line before line j
\* (0: there is none).
FirstStartBefore(s, j) ==
    LET cand == {i \in 1..(j-1) :
                    /\ PhaseAt(s, i) = "task_start"
                    /\ \A k \in i..(j-1) : PhaseAt(s, k) # "task_end"}
    IN IF cand = {} THEN 0 ELSE CHOOSE i \in cand : \A m \in cand : i <= m

\* The k-th smallest element of a set of numbers.
KthOf(S, k) == CHOOSE j \in S : Cardinality({x \in S : x <= j}) = k

\* The segments appended by the scan of the current file.
FileSegments == SubSeq(task_segments, scan_base + 1, Len(task_segments))

\* C1: in a file scan, the number of TaskSegments appended equals the number
\* of complete non-nested start-then-end pairs among the timestamped lines
\* read so far: an end while idle and a trailing start append nothing.
C1_SegmentCount ==
    pc \in {"scan", "loop", "done"} =>
        Len(task_segments) - scan_base = Cardinality(ClosingEnds(TsLines))

\* C1 witness: a finished scan that met an end while idle, one complete
\* pair and a trailing start, and appended exactly one segment.
C1_Witness ==
    /\ pc = "loop" /\ Len(TsLines) = 4
    /\ PhaseAt(TsLines, 1) = "task_end" /\ PhaseAt(TsLines, 2) = "task_start"
    /\ PhaseAt(TsLines, 3) = "task_end" /\ PhaseAt(TsLines, 4) = "task_start"
    /\ Len(FileSegments) = 1

\* The shape of the file of C2: a task_start line, a line carrying a Slam
\* pose, a task_end line, at increasing times, no anomaly pattern matching.
C2_Scenario ==
    /\ file_idx = 1 /\ Len(TsLines) = 3
    /\ PhaseAt(TsLines, 1) = "task_start"
    /\ PhaseAt(TsLines, 2) \notin {"task_start", "task_end"}
    /\ PhaseAt(TsLines, 3) = "task_end"
    /\ TimeAt(TsLines, 1) < TimeAt(TsLines, 2)
    /\ TimeAt(TsLines, 2) < TimeAt(TsLines, 3)
    /\ TsLines[1].pos = {} /\ TsLines[3].pos = {}
    /\ \E m \in TsLines[2].pos : m.name = "slam_pose" /\ m.ok
    /\ \A k \in 1..Len(scanned) : scanned[k].anom = {}

\* C2: a file of that shape yields exactly one TaskSegment, of duration
\* t2 - t0 seconds, whose events hold exactly one position-bearing event and
\* no anomalies, and the global anomaly list stays empty.
C2_EndToEnd ==
    C2_Scenario =>
        /\ Len(task_segments) = 1
        /\ task_segments[1].duration = TimeAt(TsLines, 3) - TimeAt(TsLines, 1)
        /\ Cardinality({e \in DOMAIN task_segments[1].events :
                           task_segments[1].events[e].position # <<>>}) = 1
        /\ \A e \in DOMAIN task_segments[1].events :
              task_segments[1].events[e].anomalies = <<>>
        /\ anomalies = <<>>

\* C2 witness: the run is over and the scenario 10:00:00 -> 10:10:00 gave
\* a segment of 600 seconds.
C2_Witness ==
    /\ pc = "done" /\ C2_Scenario
    /\ TimeAt(TsLines, 1) = 36000 /\ TimeAt(TsLines, 3) = 36600
    /\ Len(task_segments) = 1 /\ task_segments[1].duration = 600

\* C3: duplicate starts are ignored.  Every segment appended in the file
\* scan starts at the first task_start line since the scanner was last idle,
\* ends at the task_end line that closed it and lasts end - start seconds;
\* the open task keeps the time of the first task_start line, whatever
\* task_start lines follow.
C3_DuplicateStartsIgnored ==
    pc \in {"scan", "loop", "done"} =>
        /\ Len(FileSegments) <= Cardinality(ClosingEnds(TsLines))
        /\ \A k \in 1..Len(FileSegments) :
              LET j == KthOf(ClosingEnds(TsLines), k)
                  i == FirstStartBefore(TsLines, j)
              IN /\ FileSegments[k].start_time = TimeAt(TsLines, i)
                 /\ FileSegments[k].end_time = TimeAt(TsLines, j)
                 /\ FileSegments[k].duration =
                        TimeAt(TsLines, j) - TimeAt(TsLines, i)
        /\ current_task # <<>> =>
              LET i == FirstStartBefore(TsLines, Len(TsLines) + 1)
              IN /\ i # 0
                 /\ current_task[1].start_time = TimeAt(TsLines, i)
                 /\ task_start_time = TimeAt(TsLines, i)

\* C3 witness: a segment was appended whose task saw a second task_start
\* line, stamped with another time, before its task_end line.
C3_Witness ==
    /\ pc = "scan" /\ Len(FileSegments) = 1
    /\ LET j == KthOf(ClosingEnds(TsLines), 1)
           i == FirstStartBefore(TsLines, j)
       IN \E m \in (i+1)..(j-1) :
             /\ PhaseAt(TsLines, m) = "task_start"
             /\ TimeAt(TsLines, m) # TimeAt(TsLines, i)

\* C4: tasks never span file boundaries.  Every file scan starts idle, and
\* every appended segment was opened and closed by lines of the same file; a
\* task left open at the end of a file is in no later segment.
C4_NoTaskAcrossFiles ==
    /\ \A k \in 1..Len(task_segments) :
          task_segments[k].file = task_segments[k].end_file
    /\ (pc = "scan" /\ scanned = <<>>) =>
          (current_task = <<>> /\ task_start_time = NoTimestamp)
    /\ current_task # <<>> => current_task[1].file = log_files[file_idx]

\* C4 witness: the first file ended with a task open, the second file
\* holds a task_end line, and no segment was appended.
C4_Witness ==
    /\ pc = "scan" /\ file_idx = 2 /\ log_files[1] \in open_at_eof
    /\ Len(TsLines) >= 1 /\ PhaseAt(TsLines, 1) = "task_end"
    /\ task_segments = <<>>

\* C5: a step that reads a line without a timestamp leaves task_segments,
\* position_data, anomalies, the open task and its event list unchanged.
C5_NoTimestampSkipped ==
    [][(/\ Len(scanned') = Len(scanned) + 1
        /\ parse_timestamp(Last(scanned')) = NoTimestamp)
       => UNCHANGED <<task_segments, position_data, anomalies, current_task,
                      task_start_time>>]_vars

\* C5 witness: with a task open, a line without a usable timestamp was read
\* that matches a task_end pattern, a position pattern and an anomaly pattern.
C5_Witness ==
    /\ pc = "scan" /\ current_task # <<>> /\ scanned # <<>>
    /\ parse_timestamp(Last(scanned)) = NoTimestamp
    /\ "task_end" \in Last(scanned).task
    /\ Last(scanned).pos # {} /\ Last(scanned).anom # {}


\* The indexes in log_files of the scans that raised in the current run.
FailedNow == {p[2] : p \in {q \in failed : q[1] = run}}

\* C17: when the scan of one file raises, analyze_all_logs logs it and goes
\* on: the run never ends in the exception, the scans are entered in the
\* order of log_files, a failure leaves the run at the loop over the files,
\* and when the run is over every discovered file has been entered, the
\* failed ones included.
C17_FileFailureIsolation ==
    /\ pc \in {"discover", "loop", "scan", "done"}
    /\ FailedNow \subseteq 1..file_idx
    /\ file_idx <= Len(log_files)
    /\ pc = "done" => file_idx = Len(log_files)
    /\ (pc = "loop" /\ file_idx < Len(log_files)) => ENABLED OpenFile

\* C17 witness: the scan of the first of two files raised, the second file
\* was scanned to its end and gave a segment, and the run is over.
C17_Witness ==
    /\ pc = "done" /\ Len(log_files) = 2 /\ FailedNow = {1}
    /\ Len(task_segments) = 1 /\ task_segments[1].file = log_files[2]
    /\ Len(scanned) >= 2

\* C19: a second analyze_all_logs call on an analyzer that has completed a
\* run over the same directory leaves log_files, task_segments,
\* position_data and anomalies equal to those of a single run on a fresh
\* instance: no file is listed or scanned twice, no record is duplicated.
C19_RerunEqualsSingleRun ==
    (pc = "done" /\ run = 2 /\ failed = {}) => Collections = first_run[1]

\* The line the scan has just read matches a task_start pattern and a
\* task_end pattern, and carries a timestamp.
BothPhasesRead ==
    /\ pc = "scan" /\ scanned # <<>>
    /\ {"task_start", "task_end"} \subseteq Last(scanned).task
    /\ parse_timestamp(Last(scanned)) # NoTimestamp

\* C22: the phase of a line is the first category in table order with a
\* matching pattern, one phase at most; a line matching both task_start and
\* task_end is task_start, so it closes no open task and opens one when
\* none is open.
C22_StartBeforeEnd ==
    [][(/\ pc = "scan" /\ pc' = "scan"
        /\ Len(scanned') = Len(scanned) + 1)
       => LET l == Last(scanned') IN
          /\ detect_task_phase(l) \in
                 {TaskPhaseOrder[k] : k \in 1..Len(TaskPhaseOrder)} \cup {NoPhase}
          /\ (/\ {"task_start", "task_end"} \subseteq l.task
              /\ parse_timestamp(l) # NoTimestamp)
             => /\ detect_task_phase(l) = "task_start"
                /\ task_segments' = task_segments
                /\ current_task' # <<>>
                /\ current_task'[1].start_time =
                       IF current_task = <<>> THEN parse_timestamp(l)
                       ELSE current_task[1].start_time]_vars

\* Such a line was read while a task was open, and the task is still open.
C22_Witness ==
    /\ BothPhasesRead
    /\ current_task # <<>>
    /\ current_task[1].start_time < parse_timestamp(Last(scanned))
    /\ Len(task_segments) = scan_base

(***************************************************************************)
(* Properties of the reporting functions (checked under SpecReport).       *)
(***************************************************************************)
ReportingFunctions ==
    {"generate_comprehensive_report", "generate_trace_report",
     "ComprehensiveRobotAnalyzer.analyze_complaint_scenario",
     "ComplaintAnalyzer.analyze_complaint_scenario"}

\* C18: missing data never raises.  With no task segments
\* perform_historical_trace returns the sentinel message, with no position
\* records detect_stop_points returns the empty list, and
\* generate_comprehensive_report, generate_trace_report and
\* analyze_complaint_scenario return whatever the collections hold (no
\* task or one, up to two positions, no anomaly).
C18_MissingDataNeverRaises ==
    /\ (/\ report_op = "HistoricalTraceAnalyzer.perform_historical_trace"
        /\ ht_task_segments = <<>>)
          => report = Returned([message |-> "no task data"])
    /\ (/\ report_op = "ComprehensiveRobotAnalyzer.perform_historical_trace"
        /\ task_segments = <<>>)
          => report = Returned([message |-> "no task data"])
    /\ (report_op = "detect_stop_points" /\ position_data = <<>>)
          => report = Returned(<<>>)
    /\ report_op \in ReportingFunctions => "returned" \in DOMAIN report

\* The comprehensive report, complaint analysis included, is asked of an
\* analyzer that found nothing, and is returned.
C18_Witness ==
    /\ report_op = "generate_comprehensive_report" /\ report_arg # <<>>
    /\ task_segments = <<>> /\ position_data = <<>> /\ anomalies = <<>>
    /\ "returned" \in DOMAIN report
    /\ report.returned.historical_trace_analysis = [message |-> "no task data"]
    /\ report.returned.complaint_analysis.task_context = [in_task |-> FALSE]

(***************************************************************************)
(* Properties of the entry points (checked under SpecEntry).               *)
(***************************************************************************)
\* The entry point was handed a string that is not YYYY-MM-DD HH:MM:SS.
InvalidTimeGiven ==
    /\ report_op # "none" /\ report_arg # <<>>
    /\ strptime_whole(report_arg[1]) = ConvError

\* C20: handed a complaint time string that is not in YYYY-MM-DD HH:MM:SS
\* format, every entry point reports a format error to its caller, runs no
\* complaint correlation, and delivers the results of the other analyses
\* as it does when no complaint time is given.
C20_InvalidComplaintTime ==
    InvalidTimeGiven =>
        /\ report.message = "time_format"
        /\ report.correlation = <<>>
        /\ report.others = EntryOutcome(report_op, <<>>).others

(***************************************************************************)
(* Properties of the health score (checked under SpecHealth).              *)
(***************************************************************************)
\* C21: system_health_json returns health_score = max(0, 100 - 30*critical
\* - 15*high - 5*medium) over the anomalies the analyzer detected in the
\* run, and the total of anomaly_breakdown is the analyzer's anomaly count.
C21_HealthScore ==
    report_op = "system_health_json" =>
        /\ report.status = "success"
        /\ report.health_score =
               Max(0, 100 - 30 * SeverityCount(anomalies, "critical")
                          - 15 * SeverityCount(anomalies, "high")
                          - 5 * SeverityCount(anomalies, "medium"))
        /\ report.anomaly_breakdown.total = Len(anomalies)

(***************************************************************************)
(* Properties of the line-level functions (checked under SpecLine).        *)
(***************************************************************************)
\* Whether a token holds the text of a valid YYYY-MM-DD HH:MM:SS date-time
\* (a stdms token holds it before its :mmm field).
ValidStd(tok) ==
    /\ tok.k \in {"std", "stdms"}
    /\ tok.mo >= 1 /\ tok.mo <= 12 /\ tok.hh <= 23 /\ tok.mi <= 59

\* The instant a token denotes to the pattern that matched it (-1: none).
\* A bracketed seconds part denotes one only when it has 13 digits.
TokInstant(tok) ==
    CASE tok.k \in {"std", "stdms"} ->
            IF ValidStd(tok) THEN 3600 * tok.hh + 60 * tok.mi ELSE -1
      [] tok.k = "ros" -> IF tok.nd = 13 THEN tok.v \div 1000 ELSE -1
      [] tok.k = "epoch" -> tok.v \div 1000

\* The leftmost token pattern p matches (0: none).
Leftmost(p, toks) ==
    LET hits == {i \in 1..Len(toks) : PatternMatches(p, toks[i])}
    IN IF hits = {} THEN 0 ELSE CHOOSE i \in hits : \A j \in hits : i <= j

\* The patterns with a match, and those whose leftmost match converts.
MatchingPatterns(toks) == {p \in 1..4 : Leftmost(p, toks) # 0}
ConvertingPatterns(toks) ==
    {p \in MatchingPatterns(toks) : TokInstant(toks[Leftmost(p, toks)]) >= 0}
MinOf(S) == CHOOSE p \in S : \A q \in S : p <= q

\* C6 as stated: when the first pattern that matches fails conversion,
\* parse_timestamp returns no timestamp (no lower-priority pattern is tried).
C6_NoFallback ==
    (/\ call = "parse_timestamp"
     /\ MatchingPatterns(line_in.toks) # {}
     /\ LET p == MinOf(MatchingPatterns(line_in.toks))
        IN /\ line_in.toks[Leftmost(p, line_in.toks)].k \in {"std", "stdms"}
           /\ ~ValidStd(line_in.toks[Leftmost(p, line_in.toks)]))
    => ts_ret = NoTimestamp

\* C6 amended: the patterns are tried in priority order and a pattern whose
\* leftmost match does not convert is passed over: parse_timestamp returns
\* the instant of the first pattern in priority order whose leftmost match
\* converts, and no timestamp only when no pattern has such a match.
C6_FallsBack ==
    call = "parse_timestamp" =>
        LET good == ConvertingPatterns(line_in.toks)
        IN ts_ret = IF good = {} THEN NoTimestamp
                    ELSE TokInstant(line_in.toks[Leftmost(MinOf(good), line_in.toks)])

\* C6 witness: the line holds an unconvertible YYYY-MM-DD HH:MM:SS match and
\* a 13-digit millisecond epoch, and the epoch's instant was returned.
C6_Witness ==
    /\ call = "parse_timestamp"
    /\ Len(line_in.toks) = 2
    /\ line_in.toks[1].k = "std" /\ ~ValidStd(line_in.toks[1])
    /\ line_in.toks[2].k = "epoch"
    /\ ts_ret = line_in.toks[2].v \div 1000

C8_SeverityDerivation ==
    call = "assess_anomaly_severity" =>
        /\ line_in.err => sev_ret = "high"
        /\ (~line_in.err /\ line_in.warn) => sev_ret = "medium"
        /\ (~line_in.err /\ ~line_in.warn) =>
              sev_ret =
                 CASE sev_arg \in {"mechanical_issue", "cpu_high", "localization_drop"}
                         -> "high"
                   [] sev_arg \in {"sensor_offline", "speed_anomaly", "battery_low"}
                         -> "medium"
                   [] OTHER -> "low"

\* C8 witness: a line with ERROR and WARN, a type the table rates medium,
\* and the result 'high'.
C8_Witness ==
    /\ call = "assess_anomaly_severity"
    /\ line_in.err /\ line_in.warn
    /\ sev_arg = "sensor_offline" /\ sev_ret = "high"


\* The patterns, by index in table order, that match the line and convert.
Converting(line) ==
    {k \in 1..Len(PositionPatternOrder) :
        \E m \in line.pos : m.name = PositionPatternOrder[k] /\ m.ok}

\* C23: a position pattern whose captured group does not convert is
\* skipped and the later patterns are tried in table order:
\* extract_position_info returns the record of the first pattern that
\* matches and converts, None only when none does, one record at most.
C23_SkipsFailingPattern ==
    call = "extract_position_info" =>
        /\ Len(pos_ret) <= 1
        /\ (pos_ret = <<>>) = (Converting(line_in) = {})
        /\ pos_ret # <<>> =>
              LET k == CHOOSE k \in Converting(line_in) :
                           \A j \in Converting(line_in) : k <= j
              IN  /\ pos_ret[1].source = PositionPatternOrder[k]
                  /\ pos_ret[1].x = 1 /\ pos_ret[1].y = 2

\* The first matching pattern fails to convert and a later one is returned.
C23_Witness ==
    /\ call = "extract_position_info"
    /\ \E m \in line_in.pos : m.name = "slam_pose" /\ ~m.ok
    /\ pos_ret # <<>> /\ pos_ret[1].source = "goal_pose"

(***************************************************************************)
(* Properties of the stop-point detectors (checked under SpecStop).        *)
(***************************************************************************)
\* The loop indices (0-based) of the sorted positions lying within W
\* minutes before and including position i, and the window they form.
RefWindowIdx(i) ==
    {j \in 0..i :
        sorted_positions[i + 1].timestamp - sorted_positions[j + 1].timestamp
            <= sp_W * 60}
RefWindow(i) ==
    SubSeq(sorted_positions, MinOf(RefWindowIdx(i)) + 1, i + 1)

\* The sum of the absolute successive deltas of coordinate c over w.
RefSumDelta(w, c) ==
    LET S[j \in 1..Len(w)] ==
            IF j = 1 THEN 0 ELSE S[j - 1] + AbsDiff(w[j][c], w[j - 1][c])
    IN IF w = <<>> THEN 0 ELSE S[Len(w)]

\* Both mean absolute successive deltas over w are below T.
RefBothMeansBelow(w, T) ==
    /\ RefSumDelta(w, "x") < T * (Len(w) - 1)
    /\ RefSumDelta(w, "y") < T * (Len(w) - 1)

\* A StopPoint stamped with position i's timestamp was appended at index i.
StopPointAt(i) ==
    \E k \in 1..Len(stop_points) :
        /\ stop_points[k].idx = i
        /\ stop_points[k].timestamp = sorted_positions[i + 1].timestamp

\* C9 as stated: ComprehensiveRobotAnalyzer.detect_stop_points emits a
\* StopPoint at position i if and only if the window of positions within W
\* minutes before and including i holds at least 3 points and both mean
\* absolute successive deltas over it are below T.
C9_AtLeastThreePoints ==
    (sp_variant = "ComprehensiveRobotAnalyzer" /\ sp_pc \in {"loop", "done"}) =>
        \A i \in 0..(sp_i - 1) :
            StopPointAt(i) <=>
                (/\ Len(RefWindow(i)) >= 3
                 /\ RefBothMeansBelow(RefWindow(i), sp_T))

\* All records of the list are at the same (x, y).
AllSamePlace ==
    \A a, b \in 1..Len(position_data) :
        position_data[a].x = position_data[b].x /\ position_data[a].y = position_data[b].y

\* The first and the last instant of the list.
Instants == {position_data[a].timestamp : a \in 1..Len(position_data)}
LastInstant == CHOOSE t \in Instants : \A u \in Instants : u <= t
FirstInstant == CHOOSE t \in Instants : \A u \in Instants : t <= u

DistinctTimestamps ==
    \A a, b \in 1..Len(position_data) :
        a # b => position_data[a].timestamp # position_data[b].timestamp

\* Two other insertion orders of the list: its first two records exchanged,
\* and its first record moved to the end.  Every insertion order is reached
\* from any other by repeating these two.
SwapFirstTwo(s) ==
    IF Len(s) < 2 THEN s ELSE <<s[2], s[1]>> \o SubSeq(s, 3, Len(s))
Rotate(s) == IF s = <<>> THEN s ELSE Append(Tail(s), s[1])

\* The loop indices p <= i whose timestamp lies in [ts[i] - W*60, ts[i]].
TimeFilterIdx(i) ==
    {p \in 0..i :
        /\ sorted_positions[i + 1].timestamp - sp_W * 60
               <= sorted_positions[p + 1].timestamp
        /\ sorted_positions[p + 1].timestamp <= sorted_positions[i + 1].timestamp}

\* C24: in detect_stop_points, for every index i of the timestamp-sorted
\* positions, after the window front has advanced window_start is the
\* smallest index j <= i with ts[i] - ts[j] <= W*60 seconds, window_start
\* never decreases as i advances, and the analysed window
\* sorted[window_start..i] is exactly the set of positions at indices <= i
\* with ts[i] - W*60 <= ts[p] <= ts[i] (the deque of RobotLogAnalyzer holds
\* the same positions); when the timestamps are distinct the result does
\* not depend on the insertion order of position_data.
C24_TwoPointerWindow ==
    /\ [][StopIterComprehensive =>
            /\ window_start' = MinOf(RefWindowIdx(sp_i))
            /\ window_start' >= window_start
            /\ window_start'..sp_i = TimeFilterIdx(sp_i)]_vars
    /\ [][StopIterRobotLog =>
            position_window' =
                [k \in 1..Cardinality(TimeFilterIdx(sp_i)) |->
                    sorted_positions[MinOf(TimeFilterIdx(sp_i)) + k]]]_vars
    /\ []((sp_pc = "done" /\ DistinctTimestamps) =>
            /\ SortedByTimestamp(SwapFirstTwo(position_data)) = sorted_positions
               \/ position_data = <<>>
            /\ SortedByTimestamp(Rotate(position_data)) = sorted_positions
               \/ position_data = <<>>
            /\ sp_variant = "ComprehensiveRobotAnalyzer" =>
                 /\ detect_stop_points(SwapFirstTwo(position_data), sp_W, sp_T).stop_points
                        = stop_points
                 /\ detect_stop_points(Rotate(position_data), sp_W, sp_T).stop_points
                        = stop_points)

\* C24 witness: five positions of distinct timestamps, inserted out of
\* order, were analysed; the window front advanced and StopPoints were
\* returned.
C24_Witness ==
    /\ sp_variant = "ComprehensiveRobotAnalyzer" /\ sp_pc = "done"
    /\ DistinctTimestamps /\ Len(position_data) >= 5
    /\ position_data # sorted_positions
    /\ window_start > 0
    /\ stop_points # <<>>

(***************************************************************************)
(* Properties of the complaint correlator (checked under SpecComplaint).   *)
(***************************************************************************)
\* The entries of coll stamped within [c - w minutes, c + w minutes], in the
\* order of coll.
RefWithin(coll, c, w) ==
    SelectSeq(coll, LAMBDA e : c - w * 60 <= e.timestamp /\ e.timestamp <= c + w * 60)

\* C11: the nearby lists analyze_complaint_scenario(c, w) returns are exactly
\* the stop events, the anomaly events and the position records of the
\* analyzer's collections whose timestamp t has |t - c| <= w minutes, both
\* boundaries included and the original order kept; a stop event with t = c
\* is in stop_events_nearby for every w >= 0.
C11_WindowJoin ==
    complaint_analysis # <<>> =>
        LET r == complaint_analysis[1] IN
        /\ r.stop_events_nearby = RefWithin(stop_events, complaint_time, time_window_minutes)
        /\ r.anomalies_nearby = RefWithin(anomaly_events, complaint_time, time_window_minutes)
        /\ r.position_data_nearby =
               RefWithin(ca_position_data, complaint_time, time_window_minutes)
        /\ \A i \in 1..Len(stop_events) :
               stop_events[i].timestamp = complaint_time =>
                   \E j \in 1..Len(r.stop_events_nearby) :
                       r.stop_events_nearby[j] = stop_events[i]

\* C11 witness: a call with w = 0 kept the stop event stamped at the
\* complaint time, dropped one stamped a second earlier, and found an
\* anomaly and a position record at the complaint time.
C11_Witness ==
    /\ complaint_analysis # <<>> /\ time_window_minutes = 0
    /\ Len(stop_events) = 2
    /\ stop_events[1].timestamp = complaint_time - 1
    /\ stop_events[2].timestamp = complaint_time
    /\ complaint_analysis[1].stop_events_nearby = <<stop_events[2]>>
    /\ complaint_analysis[1].anomalies_nearby # <<>>
    /\ complaint_analysis[1].position_data_nearby # <<>>

\* The position records stamped within [lo, hi], in the order of the list.
RefSubset(lo, hi) ==
    SelectSeq(ca_position_data, LAMBDA p : lo <= p.timestamp /\ p.timestamp <= hi)

RefPre == RefSubset(complaint_time - time_window_minutes * 60, complaint_time)

RefPost == RefSubset(complaint_time, complaint_time + time_window_minutes * 60)

\* The movement_trend of each (pre, post) pair.
RefTrend(pre, post) ==
    CASE pre = "moving" /\ post = "stopped" -> "stopped_after_complaint"
      [] pre = "stopped" /\ post = "moving" -> "resumed_after_complaint"
      [] pre = "stopped" /\ post = "stopped" -> "continuous_stop"
      [] OTHER -> "unknown"

\* C12: analyze_movement_around_complaint classifies the pre-window and the
\* post-window position subsets each as 'unknown' when the subset has fewer
\* than 2 points and as 'moving' or 'stopped' otherwise, and movement_trend
\* is stopped_after_complaint for (moving, stopped), resumed_after_complaint
\* for (stopped, moving), continuous_stop for (stopped, stopped) and unknown
\* for every other pair.
C12_TrendMapping ==
    complaint_analysis # <<>> =>
        LET m == complaint_analysis[1].movement_analysis IN
        /\ (m.pre_complaint_movement = "unknown") = (Len(RefPre) < 2)
        /\ (m.post_complaint_movement = "unknown") = (Len(RefPost) < 2)
        /\ m.pre_complaint_movement \in {"unknown", "moving", "stopped"}
        /\ m.post_complaint_movement \in {"unknown", "moving", "stopped"}
        /\ m.movement_trend =
               RefTrend(m.pre_complaint_movement, m.post_complaint_movement)

\* C12 witness: the robot stood still before the complaint and moved after
\* it, and the trend is resumed_after_complaint.
C12_Witness ==
    /\ complaint_analysis # <<>>
    /\ complaint_analysis[1].movement_analysis.pre_complaint_movement = "stopped"
    /\ complaint_analysis[1].movement_analysis.post_complaint_movement = "moving"
    /\ complaint_analysis[1].movement_analysis.movement_trend = "resumed_after_complaint"

(***************************************************************************)
(* Properties of the ComplaintAnalyzer run (checked under SpecDetect).     *)
(***************************************************************************)
\* The line read last, and whether analyze_movement_pattern found the robot
\* standing at it: enough positions in the buffer and in the window, and
\* both mean changes below the threshold.
LineRead == ca_log_files[ca_file_idx][ca_line_idx]

StandingAtLineRead ==
    /\ ca_pc = "scan" /\ ca_line_idx > 0
    /\ LineRead.timestamp # NoTimestamp /\ LineRead.position # <<>>
    /\ Len(position_buffer) >= 10
    /\ LET w == SelectSeq(position_buffer,
                          LAMBDA p : p.timestamp >= LineRead.timestamp - 5 * 60)
       IN  /\ Len(w) >= 5
           /\ RefSumDelta(w, "x") < Len(w) - 1
           /\ RefSumDelta(w, "y") < Len(w) - 1

\* C25: at every point of a ComplaintAnalyzer run, across all scanned
\* files, no two movement_analysis events of stop_events have timestamps
\* less than 300 seconds apart, and no movement_analysis event was recorded
\* within 300 seconds of a stop event recorded before it, a log_analysis
\* one included.
C25_MovementStopDedup ==
    \A b \in 1..Len(stop_events) :
        stop_events[b].type = "movement_analysis" =>
            \A a \in 1..Len(stop_events) :
                /\ (a # b /\ stop_events[a].type = "movement_analysis") =>
                       total_seconds_abs(stop_events[a].timestamp,
                                         stop_events[b].timestamp) >= 300
                /\ a < b =>
                       total_seconds_abs(stop_events[a].timestamp,
                                         stop_events[b].timestamp) >= 300

\* C25 witness: the robot is found standing at the line read last, a
\* movement_analysis event is on record 300 seconds or more away, and the
\* only events within 300 seconds are log_analysis ones: no
\* movement_analysis event was recorded for this line.
C25_Witness ==
    /\ StandingAtLineRead
    /\ \E a \in 1..Len(stop_events) : stop_events[a].type = "movement_analysis"
    /\ \E a \in 1..Len(stop_events) :
          /\ stop_events[a].type = "log_analysis"
          /\ total_seconds_abs(stop_events[a].timestamp, LineRead.timestamp) < 300
    /\ \A a \in 1..Len(stop_events) :
          stop_events[a].type = "movement_analysis" =>
              total_seconds_abs(stop_events[a].timestamp, LineRead.timestamp) >= 300

\* s is t, or t with entries appended.
IsPrefix(s, t) == Len(s) <= Len(t) /\ SubSeq(t, 1, Len(s)) = s

\* C27: the scan of ComplaintAnalyzer only appends to stop_events;
\* position_data and anomaly_events stay empty through analyze_all_logs, so
\* analyze_complaint_scenario returns empty anomalies_nearby and
\* position_data_nearby, 'unknown' for the movement before and after the
\* complaint and for movement_trend, and never a system_anomaly or a
\* continuous_stop root cause.
C27_OnlyStopEvents ==
    /\ [][IsPrefix(stop_events, stop_events')]_vars
    /\ [](/\ ca_position_data = <<>> /\ anomaly_events = <<>>
          /\ complaint_analysis # <<>> =>
                LET r == complaint_analysis[1] IN
                /\ r.anomalies_nearby = <<>> /\ r.position_data_nearby = <<>>
                /\ r.movement_analysis.pre_complaint_movement = "unknown"
                /\ r.movement_analysis.post_complaint_movement = "unknown"
                /\ r.movement_analysis.movement_trend = "unknown"
                /\ \A k \in 1..Len(r.root_cause_analysis) :
                      r.root_cause_analysis[k].type
                          \notin {"system_anomaly", "continuous_stop"})

\* C27 witness: the scan read ten or more poses of a standing robot and
\* recorded a movement_analysis and a log_analysis event; the scenario was
\* then analysed at the time of the movement stop.
C27_Witness ==
    /\ ca_pc = "analyzed"
    /\ Len(position_buffer) >= 10
    /\ \E a, b \in 1..Len(stop_events) :
          /\ stop_events[a].type = "movement_analysis"
          /\ stop_events[a].timestamp = complaint_time
          /\ stop_events[b].type = "log_analysis"
    /\ Len(complaint_analysis[1].root_cause_analysis) >= 2

(***************************************************************************)
(* Properties of the task extraction of HistoricalTraceAnalyzer (checked   *)
(* under SpecExtract).                                                     *)
(***************************************************************************)
\* The line about to be read, and whether it closes a task: it has a
\* timestamp, matches a task_end pattern, and a task is open or the line
\* matches a task_start pattern too.
NextLineToRead == ht_log_files[ht_file_idx][ht_line_idx + 1]

ClosesTask ==
    /\ ht_pc = "scan" /\ ht_line_idx < Len(ht_log_files[ht_file_idx])
    /\ NextLineToRead.timestamp # NoTimestamp /\ NextLineToRead.end
    /\ ht_current_task # <<>> \/ NextLineToRead.start

\* The seconds from the start of the task to the line that closes it.
ClosingDuration ==
    NextLineToRead.timestamp
        - (IF ht_current_task # <<>> THEN ht_current_task[1].start_time
           ELSE NextLineToRead.timestamp)

\* C28: every segment extract_task_segments emits lasts 300 seconds or
\* more; a start / end pair that closes in under 300 seconds (a line
\* matching a start and an end pattern while no task is open included,
\* which opens and closes a task on the same line) emits nothing but
\* leaves no task open, so the segments emitted are at most, and can be
\* fewer than, the pairs closed.
C28_ShortTasksDropped ==
    /\ [](/\ \A k \in 1..Len(ht_task_segments) : ht_task_segments[k].duration >= 300
          /\ Len(ht_task_segments) <= ht_closed)
    /\ [][ClosesTask =>
            /\ ht_current_task' = <<>>
            /\ ht_closed' = ht_closed + 1
            /\ Len(ht_task_segments') =
                   Len(ht_task_segments) + (IF ClosingDuration >= 300 THEN 1 ELSE 0)]_vars

\* C28 witness: the first line matched a start and an end pattern with no
\* task open; two tasks were closed and one segment emitted.
C28_Witness ==
    /\ ht_log_files[1] # <<>>
    /\ ht_log_files[1][1].start /\ ht_log_files[1][1].end
    /\ ht_log_files[1][1].timestamp # NoTimestamp
    /\ ht_closed = 2 /\ Len(ht_task_segments) = 1

\* The line that closed segment s.
EndLineOf(s) == ht_log_files[s.end_line[1]][s.end_line[2]]

\* C29: the status of a task is decided by its task_end line alone: a
\* closed segment is 'running' unless that line matches a success or a
\* failure pattern, 'failure' when it matches a failure pattern (a success
\* pattern or not), and the lines read while the task is open leave it
\* 'running'; so when no end line matches a success pattern the success
\* count of the segments is 0.
C29_StatusFromEndLine ==
    /\ \A k \in 1..Len(ht_task_segments) :
          ht_task_segments[k].status =
              (IF EndLineOf(ht_task_segments[k]).failure THEN "failure"
               ELSE IF EndLineOf(ht_task_segments[k]).success THEN "success"
               ELSE "running")
    /\ ht_current_task # <<>> => ht_current_task[1].status = "running"
    /\ (\A k \in 1..Len(ht_task_segments) : ~EndLineOf(ht_task_segments[k]).success)
          => analyze_task_sequence(ht_task_segments).success_rate[1] = 0

\* C29 witness: a line matching a success and a failure pattern was read
\* while the task was open, the end line matched neither, and the segment
\* emitted is 'running'.
C29_Witness ==
    \E k \in 1..Len(ht_task_segments) :
        /\ \E j \in 1..Len(ht_task_segments[k].events) :
              ht_task_segments[k].events[j].type = "error"
        /\ ~EndLineOf(ht_task_segments[k]).success
        /\ ~EndLineOf(ht_task_segments[k]).failure
        /\ ht_task_segments[k].status = "running"

(***************************************************************************)
(* Properties of call_ai_model (checked under SpecAi).                     *)
(***************************************************************************)
\* The call has ended with a dict holding the reply or an error.
AiReturnedDict ==
    /\ ai_pc = "done" /\ "returned" \in DOMAIN ai_result[1]
    /\ \/ "raw" \in DOMAIN ai_result[1].returned
       \/ "error" \in DOMAIN ai_result[1].returned

AiReturnedError ==
    /\ ai_pc = "done" /\ "returned" \in DOMAIN ai_result[1]
    /\ "error" \in DOMAIN ai_result[1].returned

\* At most `retries` requests are made, and none after a request that did
\* not end in a request-level failure.
AiRequestsBounded ==
    /\ Len(ai_outcomes) <= ai_retries
    /\ \A k \in 1..(Len(ai_outcomes) - 1) : ai_outcomes[k] \in RequestExceptions
    /\ (ai_outcomes # <<>> /\ Last(ai_outcomes) \notin RequestExceptions)
          => ai_pc = "done"

\* The k-th wait is backoff * 2^(k-1) and follows the k-th failed request;
\* there is none after the last request.
AiWaitsBetweenAttempts ==
    /\ \A k \in 1..Len(ai_sleeps) :
          /\ ai_sleeps[k] = ai_backoff * Pow2(k - 1)
          /\ k <= Len(ai_outcomes) /\ ai_outcomes[k] \in RequestExceptions
    /\ ai_pc = "loop" => Len(ai_sleeps) = Len(ai_outcomes)
    /\ (ai_pc = "done" /\ ai_outcomes # <<>>) => Len(ai_sleeps) = Len(ai_outcomes) - 1

\* How the call ends: with the reply at the first success, with an error
\* after the last request-level failure, with an error at once on any
\* other exception, with an error and no request when no key is configured.
AiResults ==
    ai_pc = "done" =>
        /\ AiReturnedDict
        /\ (ai_outcomes # <<>> /\ Last(ai_outcomes) = "ok")
              => "raw" \in DOMAIN ai_result[1].returned
        /\ (ai_outcomes # <<>> /\ Last(ai_outcomes) \in RequestExceptions)
              => (AiReturnedError /\ Len(ai_outcomes) = ai_retries)
        /\ (ai_outcomes # <<>> /\ Last(ai_outcomes) \in OtherExceptions)
              => AiReturnedError
        /\ ~ai_key => (AiReturnedError /\ ai_outcomes = <<>>)

TraceSorted == SortedByStartTime(ht_task_segments)

\* The target index k (0-based): the last segment by default, the index
\* handed to ComprehensiveRobotAnalyzer, the index HistoricalTraceAnalyzer
\* reports for a target time.
TraceTargetIndex ==
    IF target_task = <<>> THEN Len(TraceSorted) - 1
    ELSE IF tr_variant = "ComprehensiveRobotAnalyzer" THEN target_task[1]
    ELSE trace_analysis[1].target_task_index

\* A trace has run over at least one segment with a target index of the
\* ordered list.
TraceRan ==
    /\ trace_analysis # <<>> /\ ht_task_segments # <<>>
    /\ "target_task_index" \in DOMAIN trace_analysis[1]
    /\ TraceTargetIndex \in 0..(Len(TraceSorted) - 1)

\* C13: with the segments ordered by start_time, a target index k (the last
\* segment by default) and a lookback L (2 by default),
\* perform_historical_trace analyses exactly the segments of indices
\* max(0, k - L) .. k: the sequence ends at the target, holds no segment
\* later than the target and has min(k, L) + 1 segments.
C13_LookbackSelection ==
    /\ trace_analysis # <<>> /\ ht_task_segments # <<>>
           => "target_task_index" \in DOMAIN trace_analysis[1]
    /\ TraceRan =>
        LET k == TraceTargetIndex
            L == IF lookback_tasks = <<>> THEN 2 ELSE lookback_tasks[1]
            first == IF k - L > 0 THEN k - L ELSE 0
        IN  /\ \A i \in 1..(Len(TraceSorted) - 1) :
                   TraceSorted[i].start_time <= TraceSorted[i + 1].start_time
            /\ trace_analysis[1].target_task_index = k
            /\ Len(sequence) = (IF k < L THEN k ELSE L) + 1
            /\ \A i \in 1..Len(sequence) : sequence[i] = TraceSorted[first + i]
            /\ sequence[Len(sequence)] = TraceSorted[k + 1]
            /\ \A i \in 1..Len(sequence) :
                   sequence[i].start_time <= TraceSorted[k + 1].start_time
            /\ Len(trace_analysis[1].task_sequences[1].tasks) = Len(sequence)

\* C13 witness: four segments held out of start_time order were traced with
\* the default target and the default lookback, and the three latest were
\* analysed.
C13_Witness ==
    /\ TraceRan /\ target_task = <<>> /\ lookback_tasks = <<>>
    /\ Len(ht_task_segments) = 4 /\ ht_task_segments # TraceSorted
    /\ Len(sequence) = 3
    /\ sequence[1] = TraceSorted[2] /\ sequence[3] = TraceSorted[4]

\* Least squares in centred form, scaled by n * n: the slope of values
\* against 0 .. n-1 is RefSlopeNum / RefSlopeDen.
RefSlopeNum(values) ==
    LET n == Len(values)
        sx == SumSeq([i \in 1..n |-> i - 1])
        sy == SumSeq(values)
    IN  SumSeq([i \in 1..n |-> (n * (i - 1) - sx) * (n * values[i] - sy)])

RefSlopeDen(values) ==
    LET n == Len(values)
        sx == SumSeq([i \in 1..n |-> i - 1])
    IN  SumSeq([i \in 1..n |-> (n * (i - 1) - sx) * (n * (i - 1) - sx)])

\* trend is the classification of the slope of values against 0.1 and -0.1.
RefClassified(trend, values) ==
    /\ RefSlopeDen(values) > 0
    /\ (trend = "increasing") = (10 * RefSlopeNum(values) > RefSlopeDen(values))
    /\ (trend = "decreasing") = (10 * RefSlopeNum(values) < 0 - RefSlopeDen(values))
    /\ (trend = "stable") = (/\ 10 * RefSlopeNum(values) <= RefSlopeDen(values)
                             /\ 10 * RefSlopeNum(values) >= 0 - RefSlopeDen(values))

RefErrorCounts ==
    [i \in 1..Len(sequence) |->
        Len(SelectSeq(sequence[i].events, LAMBDA e : e.type = "error"))]

RefDurations == [i \in 1..Len(sequence) |-> sequence[i].duration]

\* HistoricalTraceAnalyzer.perform_historical_trace has returned for a
\* sequence of at least n tasks.
HistoricalRan(n) ==
    /\ tr_variant = "HistoricalTraceAnalyzer" /\ trace_analysis # <<>>
    /\ Len(sequence) >= n

\* C14: for a selected sequence of n >= 2 tasks analyze_trends sets
\* duration_trend, and likewise error_trend, to 'increasing' iff the
\* least-squares slope of the values against the indices 0 .. n-1 is above
\* 0.1, to 'decreasing' iff it is below -0.1 and to 'stable' otherwise;
\* calculate_trend divides by zero for no n >= 2 and returns 0 for n < 2.
C14_TrendClassification ==
    /\ HistoricalRan(2) =>
           /\ "trend_analysis" \in DOMAIN trace_analysis[1]
           /\ calculate_trend(RefDurations) # ZeroDivisionError
           /\ calculate_trend(RefErrorCounts) # ZeroDivisionError
           /\ RefClassified(trace_analysis[1].trend_analysis.duration_trend, RefDurations)
           /\ RefClassified(trace_analysis[1].trend_analysis.error_trend, RefErrorCounts)
    /\ HistoricalRan(1) =>
           /\ calculate_trend(<<>>)[1] = 0 /\ calculate_trend(<<>>)[2] # 0
           /\ calculate_trend(SubSeq(RefDurations, 1, 1))[1] = 0
           /\ calculate_trend(SubSeq(RefDurations, 1, 1))[2] # 0

\* C14 witness: four tasks whose error counts have a slope of exactly 0.1
\* were analysed and error_trend is 'stable'.
C14_Witness ==
    /\ HistoricalRan(4)
    /\ 10 * RefSlopeNum(RefErrorCounts) = RefSlopeDen(RefErrorCounts)
    /\ trace_analysis[1].trend_analysis.error_trend = "stable"

\* Each duration of the sequence exceeds 1.2 times the one before it.
RefEachExceeds ==
    \A i \in 2..Len(sequence) : 10 * RefDurations[i] > 12 * RefDurations[i - 1]

HasIndicator(type) ==
    \E i \in 1..Len(trace_analysis[1].root_cause_indicators) :
        trace_analysis[1].root_cause_indicators[i] = type

\* The durations [60, 80, 110, 150] were traced with lookback 3.
RefScenario ==
    /\ HistoricalRan(4) /\ RefDurations = <<60, 80, 110, 150>>
    /\ lookback_tasks = <<3>>

RefScenarioHolds ==
    RefScenario =>
        /\ trace_analysis[1].cross_task_analysis.performance_degradation
        /\ HasIndicator("performance_degradation")
        /\ trace_analysis[1].trend_analysis.duration_trend = "increasing"

\* C15: for every selected task sequence with at least two tasks the trace
\* marks performance_degradation (the cross_task_analysis flag and the
\* root_cause_indicators entry) if and only if each task's duration exceeds
\* 1.2 times the previous task's; for the durations [60, 80, 110, 150] with
\* lookback 3 it is marked and duration_trend is 'increasing'.
C15_DegradationFromTwoTasks ==
    /\ HistoricalRan(2) =>
           /\ trace_analysis[1].cross_task_analysis.performance_degradation = RefEachExceeds
           /\ HasIndicator("performance_degradation") = RefEachExceeds
    /\ RefScenarioHolds

\* C15 as amended: the same with at least three tasks; a sequence of exactly
\* two tasks is never marked.
C15_DegradationFromThreeTasks ==
    /\ HistoricalRan(2) =>
           /\ "cross_task_analysis" \in DOMAIN trace_analysis[1]
           /\ trace_analysis[1].cross_task_analysis.performance_degradation
                  = (Len(sequence) >= 3 /\ RefEachExceeds)
           /\ HasIndicator("performance_degradation")
                  = (Len(sequence) >= 3 /\ RefEachExceeds)
    /\ RefScenarioHolds

\* C15 witness: the durations [60, 80, 110, 150] were traced with lookback 3
\* and performance_degradation is marked.
C15_Witness ==
    /\ RefScenario
    /\ trace_analysis[1].cross_task_analysis.performance_degradation
    /\ HasIndicator("performance_degradation")
    /\ trace_analysis[1].trend_analysis.duration_trend = "increasing"

\* The error counts of the sequence increase across every consecutive pair.
RefErrorsIncrease ==
    \A i \in 2..Len(sequence) : RefErrorCounts[i] > RefErrorCounts[i - 1]

\* C16: for every selected task sequence with at least two tasks the trace
\* emits the error_escalation indicator if and only if the per-task error
\* counts are strictly increasing across every consecutive pair, and the
\* cross_task_analysis.error_escalation flag and the presence of an
\* error_escalation entry in root_cause_indicators always agree.
C16_ErrorEscalation ==
    HistoricalRan(2) =>
        /\ HasIndicator("error_escalation") = RefErrorsIncrease
        /\ trace_analysis[1].cross_task_analysis.error_escalation
               = HasIndicator("error_escalation")

\* The success_rate reported for the selected sequence, a fraction
\* <<numerator, denominator>>, and the number of its tasks with status
\* 'success'.
SequenceAnalysed ==
    /\ tr_variant = "HistoricalTraceAnalyzer" /\ trace_analysis # <<>>
    /\ "task_sequences" \in DOMAIN trace_analysis[1]
    /\ sequence # <<>>
ReportedRate == trace_analysis[1].task_sequences[1].success_rate
RefSuccesses == Cardinality({i \in 1..Len(sequence) : sequence[i].status = "success"})

\* C26 as stated: for every non-empty selected task sequence the
\* success_rate reported equals count(status == 'success') / count(tasks),
\* a value between 0 and 1.
C26_SuccessRatio ==
    SequenceAnalysed =>
        /\ ReportedRate[1] * Len(sequence) = RefSuccesses * ReportedRate[2]
        /\ 0 <= ReportedRate[1] /\ ReportedRate[1] <= ReportedRate[2]

\* C26 amended: for every non-empty selected task sequence the success_rate
\* reported equals 100 * count(status == 'success') / count(tasks), a
\* percentage between 0 and 100.
C26_SuccessPercentage ==
    SequenceAnalysed =>
        /\ ReportedRate[1] * Len(sequence) = 100 * RefSuccesses * ReportedRate[2]
        /\ 0 <= ReportedRate[1] /\ ReportedRate[1] <= 100 * ReportedRate[2]

\* C26 witness: a sequence of three tasks or more, some of them successful
\* and some not, was analysed.
C26_Witness ==
    /\ SequenceAnalysed /\ Len(sequence) >= 3
    /\ 0 < RefSuccesses /\ RefSuccesses < Len(sequence)

=============================================================================
